---- MODULE Spec2Model ----
(***************************************************************************)
(* Model of the Cuenta aggregate (app/cuentas/domain/entities/cuenta.py)   *)
(* together with the HistorialAsignacion value object, the                 *)
(* TipoProcesoAnterior permission matrix and the buffered domain events.   *)
(*                                                                         *)
(* Identifiers (funcionario ids) are sequences of one-character strings so *)
(* that strip() and upper() are computed.  Free texts (motivo,             *)
(* observaciones) are abstracted to their shape: leading blanks, the       *)
(* length of the part between the first and the last non-blank character,  *)
(* and trailing blanks; None is a distinguished text.                      *)
(***************************************************************************)
EXTENDS Integers, Sequences, FiniteSets, TLC

\* ------------------------------------------------------------------ bounds
MaxDia == 1              \* days the clock may advance
MaxHistorial == 3        \* commands are issued while the historial is shorter
MaxHistorialRepo == 2    \* longest historial handed to crear_desde_repositorio
MaxNotas == 2            \* process commands are issued while observaciones holds fewer notes

\* --------------------------------------------------------- program constants
MAX_MOTIVO == 500
MAX_OBSERVACIONES == 1000

\* ------------------------------------------------------------------- strings
Espacio == " "

Mayuscula(ch) ==
    CASE ch = "f" -> "F"
      [] ch = "s" -> "S"
      [] OTHER -> ch

RECURSIVE upper(_)
upper(s) == IF s = <<>> THEN <<>> ELSE <<Mayuscula(Head(s))>> \o upper(Tail(s))

RECURSIVE lstrip(_)
lstrip(s) == IF s # <<>> /\ Head(s) = Espacio THEN lstrip(Tail(s)) ELSE s

RECURSIVE rstrip(_)
rstrip(s) ==
    IF s # <<>> /\ s[Len(s)] = Espacio THEN rstrip(SubSeq(s, 1, Len(s) - 1)) ELSE s

strip(s) == rstrip(lstrip(s))

\* ---------------------------------------------------------------- free text
Texto(i, n, f) == [nulo |-> FALSE, ini |-> i, nucleo |-> n, fin |-> f]
None == [nulo |-> TRUE, ini |-> 0, nucleo |-> 0, fin |-> 0]

Longitud(t) == t.ini + t.nucleo + t.fin
\* Python truthiness of an Optional[str]
EsVerdadero(t) == ~t.nulo /\ Longitud(t) > 0
\* str.strip() on a text shape
strip_texto(t) == Texto(0, t.nucleo, 0)
\* the text an f-string interpolates: None is rendered as the 4 letters "None"
Interpolado(t) == IF t.nulo THEN Texto(0, 4, 0) ELSE t
\* a prefix of p non-blank-terminated characters followed by ": " and by t
ConPrefijo(p, t) ==
    LET u == Interpolado(t)
    IN  IF u.nucleo > 0
        THEN Texto(0, p + 2 + u.ini + u.nucleo, u.fin)
        ELSE Texto(0, p + 1, 1 + u.ini + u.fin)


\* --------------------------------------------------------------- Observacion
\* A free text handed to a process command: its shape, and whether it holds
\* markup that Observacion._contiene_contenido_sospechoso looks for.
TextoObs(i, n, f, c) ==
    [nulo |-> FALSE, ini |-> i, nucleo |-> n, fin |-> f, clase |-> c]
NoneObs == [nulo |-> TRUE, ini |-> 0, nucleo |-> 0, fin |-> 0, clase |-> "limpio"]

\* Observacion.valor is kept as the sequence of its parts: the "[timestamp -
\* funcionario] " mark, the text after it, and the separator between notes.
\* e names the fixed wording of a text, a the identifier written into the
\* part, n the number of characters the caller's text contributes.
Tramo(k, e, a, n) == [k |-> k, e |-> e, a |-> a, n |-> n]
Separador == Tramo("sep", <<>>, <<>>, 0)
SinObservaciones == Tramo("texto", <<"Sin observaciones adicionales.">>, <<>>, 0)

\* re.sub(r" {2,}", " ", linea): every run of two or more blanks becomes one
RECURSIVE colapsar_blancos(_)
colapsar_blancos(s) ==
    IF Len(s) < 2 THEN s
    ELSE IF s[1] = Espacio /\ s[2] = Espacio
         THEN colapsar_blancos(Tail(s))
         ELSE <<s[1]>> \o colapsar_blancos(Tail(s))

\* an identifier as it stands between "[timestamp - " and "]" once
\* _normalizar_texto has collapsed the runs of blanks of the line: leading
\* blanks merge with the one before, an inner or trailing run becomes a single
\* blank
EnMarca(f) == colapsar_blancos(lstrip(f))
Marca(f) == Tramo("marca", <<>>, EnMarca(f), 0)

\* f"ETIQUETA: {texto}" after normalisation
Rotulado(etiqueta, texto) ==
    Tramo("texto", etiqueta, <<>>, IF texto.nulo THEN 4 ELSE texto.nucleo)
\* a caller's text taken as it is; a blank one normalises to the empty value
Libre(texto) ==
    IF EsVerdadero(texto) /\ texto.nucleo > 0
    THEN <<Tramo("texto", <<>>, <<>>, texto.nucleo)>>
    ELSE <<>>

LargoPrioridad(p) ==
    CASE p = "BAJA" -> 4
      [] p = "MEDIA" -> 5
      [] p = "ALTA" -> 4
      [] p = "CRITICA" -> 7

\* characters of the fixed wording, the ":" included where there is one
LargoEtiqueta(e) ==
    CASE e = <<>> -> 0
      [] e[1] = "Sin observaciones adicionales." -> 30
      [] e[1] = "NOVEDAD REPORTADA" -> 18
      [] e[1] = "NOVEDAD RESUELTA" -> 17
      [] e[1] = "TRASLADO DEVUELTO" -> 18
      [] e[1] = "RADICACIÓN DEVUELTA" -> 20
      [] e[1] = "NOVEDAD REABIERTA" -> 18
      [] e[1] = "COMPLETADO" -> 12
      [] e[1] = "COMPLETADA" -> 12
      [] e[1] = "Radicación recibida del" -> 23
      [] e[1] = "Novedad tomada en revisión por" -> 30
      [] e[1] = "PRIORIDAD CAMBIADA" ->
            23 + LargoPrioridad(e[2]) + 3 + LargoPrioridad(e[3]) + 1

\* len() of one part
LargoTramo(t) ==
    CASE t.k = "sep" -> 5
      [] t.k = "marca" -> 22 + Len(t.a)
      [] t.k = "texto" ->
            LargoEtiqueta(t.e)
            + (IF t.a # <<>> THEN 1 + Len(t.a) ELSE 0)
            + (IF t.n > 0 THEN (IF t.e = <<>> THEN 0 ELSE 1) + t.n ELSE 0)

RECURSIVE LargoValor(_)
LargoValor(v) == IF v = <<>> THEN 0 ELSE LargoTramo(Head(v)) + LargoValor(Tail(v))

\* Observacion._es_longitud_valida
es_longitud_valida(v) == LargoValor(v) <= MAX_OBSERVACIONES

\* Observacion._contiene_solo_caracteres_permitidos: the pattern holds no
\* accented capital or small vowel, so the wordings that carry one fail it
contiene_solo_caracteres_permitidos(v) ==
    \A i \in 1..Len(v) :
        v[i].e = <<>>
        \/ v[i].e[1] \notin {"RADICACIÓN DEVUELTA", "Radicación recibida del",
                             "Novedad tomada en revisión por"}

\* the result of building an Observacion: the value, or the ValueError
Rechazada == [ok |-> FALSE, valor |-> <<>>]
Aceptada(v) == [ok |-> TRUE, valor |-> v]

\* Observacion.__post_init__
Observacion(v, sospechoso) ==
    IF es_longitud_valida(v) /\ contiene_solo_caracteres_permitidos(v) /\ ~sospechoso
    THEN Aceptada(v)
    ELSE Rechazada

\* Observacion.esta_vacia
esta_vacia(v) == v = <<>>

\* Observacion.agregar_timestamp_automatico
agregar_timestamp_automatico(v, funcionario) ==
    IF strip(funcionario) = <<>>
    THEN Rechazada
    ELSE Observacion(<<Marca(funcionario)>>
                     \o (IF esta_vacia(v) THEN <<SinObservaciones>> ELSE v), FALSE)

\* Observacion.crear_con_timestamp
crear_con_timestamp(v, sospechoso, funcionario) ==
    LET observacion_base == IF v # <<>> THEN Observacion(v, sospechoso) ELSE Aceptada(<<>>)
    IN  IF observacion_base.ok
        THEN agregar_timestamp_automatico(observacion_base.valor, funcionario)
        ELSE Rechazada

\* Observacion.combinar_observaciones([anterior, nueva])
combinar_observaciones(anterior, nueva) ==
    IF esta_vacia(anterior) /\ esta_vacia(nueva) THEN Aceptada(<<>>)
    ELSE IF esta_vacia(anterior) THEN Observacion(nueva, FALSE)
    ELSE IF esta_vacia(nueva) THEN Observacion(anterior, FALSE)
    ELSE Observacion(anterior \o <<Separador>> \o nueva, FALSE)

\* the note a command adds: crear_con_timestamp, then combinar_observaciones
\* with the notes already there
ConNota(anterior, v, sospechoso, funcionario) ==
    LET nota == crear_con_timestamp(v, sospechoso, funcionario)
    IN  IF nota.ok THEN combinar_observaciones(anterior, nota.valor) ELSE Rechazada

Sospechoso(texto) == ~texto.nulo /\ texto.clase = "script"
NumeroDeNotas(v) == Cardinality({i \in 1..Len(v) : v[i].k = "marca"})

\* ------------------------------------------------------------------- inputs
F1 == <<"F", "1">>
F2 == <<"F", "2">>
S1 == <<"S", "1">>
\* identifiers a caller may pass: canonical, padded lower case, empty
FuncionariosEntrada == {F1, <<" ", "f", "2", " ">>, <<>>}
CreadoresEntrada == {<<"f", "1", " ">>, <<" ">>}
AutorizaEntrada == {S1}
\* texts a caller may pass: "ok", and one character over each limit
TextosEntrada == {Texto(0, 2, 0), Texto(0, MAX_MOTIVO + 1, 0)}
ObservacionesEntrada == {None, Texto(0, MAX_OBSERVACIONES + 1, 0)}
\* funcionario_asigna = None
SinAsignador == <<"None">>
\* funcionario_resuelve = None, fecha_resolucion = None
SinFuncionario == <<"None">>
SinFecha == -1
\* no query of the Cuenta has been asked yet
SinRespuesta ==
    [puede_iniciar_traslado |-> FALSE, puede_iniciar_radicacion |-> FALSE,
     razon_no_puede_trasladar |-> "sin consultar",
     razon_no_puede_radicar |-> "sin consultar",
     procesos_permitidos |-> <<>>]

EstadoCuenta == {"ACTIVA", "INACTIVA", "EN_TRASLADO", "EN_RADICACION"}
TipoProcesoAnterior ==
    {"NINGUNO", "TRASLADO_COMPLETADO", "TRASLADO_DEVUELTO",
     "RADICACION_COMPLETADA", "RADICACION_DEVUELTA"}

VARIABLES
    hoy,                        \* date.today(), in days
    origen,                     \* factory that built the account, or "ninguna"
    funcionario_creador,
    estado,
    historial_asignaciones,
    domain_events,
    entregados,                 \* every event get_domain_events has returned so far
    tipo_proceso_anterior,
    proceso_traslado_activo,
    proceso_radicacion_activo,
    ultimo,                     \* outcome of the last operation
    exitosos,                   \* commands that returned normally
    entidad,                    \* class of the process entity built, or "ninguna"
    estado_proceso,             \* Traslado.estado / Radicacion.estado / Novedad.estado
    observaciones_proceso,      \* Traslado/Radicacion/Novedad.observaciones
    funcionario_actual,
    fecha_ultima_actualizacion,
    fue_recibida,               \* Radicacion._fue_recibida
    prioridad,                  \* Novedad.prioridad
    funcionario_resuelve,
    fecha_resolucion,
    descripcion_resolucion,
    fecha_reporte,              \* Novedad.fecha_reporte
    fecha_vencimiento,          \* <<FechaVencimiento.fecha>> of a Traslado or Radicacion, <<>> before it is built
    nivel_consultado,           \* what nivel_urgencia() returned last
    respuesta                   \* what the queries of the Cuenta answered when last asked

cuenta_vars ==
    <<funcionario_creador, estado, historial_asignaciones,
      domain_events, tipo_proceso_anterior, proceso_traslado_activo,
      proceso_radicacion_activo>>

vencimiento_vars == <<fecha_vencimiento, nivel_consultado>>
consulta_vars == <<vencimiento_vars, respuesta>>

\* the fields of the Traslado, Radicacion or Novedad under observation
proceso_vars ==
    <<entidad, estado_proceso, observaciones_proceso, funcionario_actual,
      fecha_ultima_actualizacion, fue_recibida, prioridad,
      funcionario_resuelve, fecha_resolucion, descripcion_resolucion,
      fecha_reporte, consulta_vars>>

vars ==
    <<hoy, origen, funcionario_creador, estado,
      historial_asignaciones, domain_events, entregados, tipo_proceso_anterior,
      proceso_traslado_activo, proceso_radicacion_activo, ultimo, exitosos,
      entidad, estado_proceso, observaciones_proceso, funcionario_actual,
      fecha_ultima_actualizacion, fue_recibida, prioridad,
      funcionario_resuelve, fecha_resolucion, descripcion_resolucion,
      fecha_reporte, fecha_vencimiento, nivel_consultado, respuesta>>

\* ------------------------------------------------------ HistorialAsignacion
\* the arguments of the dataclass constructor; motivo is the whole string,
\* base names its fixed part
ArgsHistorial(funcionario_id, fecha, base, motivo, asigna, tipo, obs) ==
    [funcionario_id |-> funcionario_id, fecha_asignacion |-> fecha,
     base |-> base, motivo |-> motivo, funcionario_asigna |-> asigna,
     tipo_asignacion |-> tipo, observaciones |-> obs]

funcionario_normalizado(a) == strip(upper(a.funcionario_id))
motivo_normalizado(a) ==
    IF EsVerdadero(a.motivo) THEN strip_texto(a.motivo) ELSE Texto(0, 0, 0)
funcionario_asigna_normalizado(a) ==
    IF a.funcionario_asigna # SinAsignador /\ a.funcionario_asigna # <<>>
    THEN strip(upper(a.funcionario_asigna)) ELSE SinAsignador
observaciones_normalizadas(a) ==
    IF EsVerdadero(a.observaciones) THEN strip_texto(a.observaciones) ELSE None

\* __post_init__, PASO 2: TRUE iff no ValueError is raised
HistorialValido(a) ==
    /\ funcionario_normalizado(a) # <<>>
    /\ Longitud(motivo_normalizado(a)) > 0
    /\ Longitud(motivo_normalizado(a)) <= MAX_MOTIVO
    /\ ~(EsVerdadero(observaciones_normalizadas(a))
         /\ Longitud(observaciones_normalizadas(a)) > MAX_OBSERVACIONES)
    /\ a.fecha_asignacion <= hoy

\* __post_init__, PASO 3: the stored, normalised record
HistorialAsignacion(a) ==
    [funcionario_id |-> funcionario_normalizado(a),
     fecha_asignacion |-> a.fecha_asignacion,
     motivo |-> [base |-> a.base, largo |-> Longitud(motivo_normalizado(a))],
     funcionario_asigna |-> funcionario_asigna_normalizado(a),
     tipo_asignacion |-> a.tipo_asignacion,
     observaciones |-> observaciones_normalizadas(a)]

LargoAccion(accion) ==
    CASE accion = "inicio" -> 6 [] accion = "completar" -> 9 [] accion = "devolver" -> 8
LargoProceso(tipo_proceso) ==
    CASE tipo_proceso = "traslado" -> 8 [] tipo_proceso = "radicacion" -> 10
\* bug: the action-to-type table files "completar" under the wrong type
TipoDeAccion_confundida(accion) ==
    CASE accion = "inicio" -> "INICIO_PROCESO"
      [] accion = "completar" -> "DEVOLVER_PROCESO"
      [] accion = "devolver" -> "DEVOLVER_PROCESO"
      [] OTHER -> "REASIGNACION"

TipoDeAccion(accion) ==
    CASE accion = "inicio" -> "INICIO_PROCESO"
      [] accion = "completar" -> "COMPLETAR_PROCESO"
      [] accion = "devolver" -> "DEVOLVER_PROCESO"
      [] OTHER -> "REASIGNACION"

crear_asignacion_inicial(funcionario_id, fecha) ==
    ArgsHistorial(funcionario_id, fecha, "creacion", Texto(0, 8, 0),
                  SinAsignador, "CREACION", None)

crear_reasignacion_manual(funcionario_id, funcionario_asigna, motivo, observaciones) ==
    ArgsHistorial(funcionario_id, hoy, "", motivo, funcionario_asigna,
                  "REASIGNACION", observaciones)

crear_cambio_proceso(funcionario_id, tipo_proceso, accion, motivo_adicional) ==
    LET p == LargoAccion(accion) + 1 + LargoProceso(tipo_proceso)
        motivo == IF EsVerdadero(motivo_adicional)
                  THEN ConPrefijo(p, motivo_adicional)
                  ELSE Texto(0, p, 0)
    IN  ArgsHistorial(funcionario_id, hoy, accion \o "_" \o tipo_proceso, motivo,
                      SinAsignador, TipoDeAccion(accion), motivo_adicional)

crear_inactivacion(funcionario_id, motivo) ==
    ArgsHistorial(funcionario_id, hoy, "inactivar", ConPrefijo(9, motivo),
                  SinAsignador, "INACTIVACION", motivo)

crear_reactivacion(funcionario_id) ==
    ArgsHistorial(funcionario_id, hoy, "reactivar", Texto(0, 9, 0),
                  SinAsignador, "REACTIVACION", None)

\* ------------------------------------------------------------ domain events
Evento(nombre, funcionario, tipo_proceso, resultado, motivo) ==
    [evento |-> nombre, funcionario |-> funcionario, tipo_proceso |-> tipo_proceso,
     resultado |-> resultado, motivo |-> motivo]

\* ------------------------------------------------------ TipoProcesoAnterior
\* bug: a returned radicacion is left out of the traslado list
permite_traslado_sin_devuelta(t) ==
    t \in {"NINGUNO", "RADICACION_COMPLETADA", "TRASLADO_DEVUELTO"}

permite_traslado(t) ==
    t \in {"NINGUNO", "RADICACION_COMPLETADA", "TRASLADO_DEVUELTO", "RADICACION_DEVUELTA"}
\* bug: a returned traslado is left out of the radicacion list
permite_radicacion_sin_devuelto(t) ==
    t \in {"NINGUNO", "TRASLADO_COMPLETADO", "RADICACION_DEVUELTA"}

permite_radicacion(t) ==
    t \in {"NINGUNO", "TRASLADO_COMPLETADO", "TRASLADO_DEVUELTO", "RADICACION_DEVUELTA"}

\* ------------------------------------------------------------ Cuenta queries
tiene_proceso_activo == proceso_traslado_activo \/ proceso_radicacion_activo
tiene_traslado_activo == proceso_traslado_activo
tiene_radicacion_activa == proceso_radicacion_activo
esta_inactiva == estado = "INACTIVA"

\* bug: the check for an inactive account is missing
puede_iniciar_traslado_sin_inactiva ==
    IF tiene_proceso_activo THEN FALSE
    ELSE permite_traslado(tipo_proceso_anterior)

puede_iniciar_traslado ==
    IF tiene_proceso_activo \/ esta_inactiva THEN FALSE
    ELSE permite_traslado(tipo_proceso_anterior)

\* bug: the check for an inactive account is missing
puede_iniciar_radicacion_sin_inactiva ==
    IF tiene_proceso_activo THEN FALSE
    ELSE permite_radicacion(tipo_proceso_anterior)

\* bug: the check for a process already under way is missing
puede_iniciar_radicacion_sin_exclusion ==
    IF esta_inactiva THEN FALSE
    ELSE permite_radicacion(tipo_proceso_anterior)

puede_iniciar_radicacion ==
    IF tiene_proceso_activo \/ esta_inactiva THEN FALSE
    ELSE permite_radicacion(tipo_proceso_anterior)

\* mutant: a traslado that may start is listed as a radicacion too
get_procesos_permitidos_cruzados ==
    (IF puede_iniciar_traslado THEN <<"traslado", "radicacion">> ELSE <<>>)
        \o (IF puede_iniciar_radicacion THEN <<"radicacion">> ELSE <<>>)

\* Cuenta.get_razon_no_puede_trasladar; the messages are named by their cause:
\* "Ya tiene un proceso de traslado activo", "Ya tiene un proceso de
\* radicacion activo", "La cuenta esta inactiva", "Esta placa ya fue enviada a
\* otro organismo, ...", "Proceso anterior (...) no permite traslados" and "No
\* se puede determinar la razon"
get_razon_no_puede_trasladar ==
    IF puede_iniciar_traslado THEN "None"
    ELSE IF tiene_proceso_activo
         THEN (IF tiene_traslado_activo THEN "traslado activo" ELSE "radicacion activa")
    ELSE IF esta_inactiva THEN "cuenta inactiva"
    ELSE IF ~permite_traslado(tipo_proceso_anterior)
         THEN (IF tipo_proceso_anterior = "TRASLADO_COMPLETADO"
               THEN "ya enviada" ELSE "proceso anterior")
    ELSE "indeterminada"

\* Cuenta.get_razon_no_puede_radicar; "Esta placa ya llego de otro organismo,
\* ..." is named "ya llegada"
get_razon_no_puede_radicar ==
    IF puede_iniciar_radicacion THEN "None"
    ELSE IF tiene_proceso_activo
         THEN (IF tiene_radicacion_activa THEN "radicacion activa" ELSE "traslado activo")
    ELSE IF esta_inactiva THEN "cuenta inactiva"
    ELSE IF ~permite_radicacion(tipo_proceso_anterior)
         THEN (IF tipo_proceso_anterior = "RADICACION_COMPLETADA"
               THEN "ya llegada" ELSE "proceso anterior")
    ELSE "indeterminada"

\* Cuenta.get_procesos_permitidos
get_procesos_permitidos ==
    (IF puede_iniciar_traslado THEN <<"traslado">> ELSE <<>>)
        \o (IF puede_iniciar_radicacion THEN <<"radicacion">> ELSE <<>>)

get_funcionario_actual ==
    IF historial_asignaciones = <<>> THEN funcionario_creador
    ELSE historial_asignaciones[Len(historial_asignaciones)].funcionario_id

\* bug: the check of ACTIVA/INACTIVA against the flags is missing
coherencia_estado_sin_reposo(e, t, r) ==
    /\ ~(e = "EN_TRASLADO" /\ ~t)
    /\ ~(e = "EN_RADICACION" /\ ~r)
    /\ ~(t /\ r)

\* bug: the check that the two flags are not both set is missing
coherencia_estado_sin_ambos(e, t, r) ==
    /\ ~(e = "EN_TRASLADO" /\ ~t)
    /\ ~(e = "EN_RADICACION" /\ ~r)
    /\ ~(e \in {"ACTIVA", "INACTIVA"} /\ (t \/ r))

\* _validar_coherencia_estado on candidate values: TRUE iff nothing is raised
coherencia_estado(e, t, r) ==
    /\ ~(e = "EN_TRASLADO" /\ ~t)
    /\ ~(e = "EN_RADICACION" /\ ~r)
    /\ ~(t /\ r)
    /\ ~(e \in {"ACTIVA", "INACTIVA"} /\ (t \/ r))


\* ------------------------------------------------------------- bookkeeping
Exito(comando) ==
    /\ ultimo' = "ok"
    /\ exitosos' = exitosos + 1
Falla(comando) ==
    /\ ultimo' = "error"
    /\ exitosos' = exitosos

\* bug: an operation by the official already in charge is not recorded
Registrar_colapsa(comando, a, ev) ==
    IF HistorialValido(a)
    THEN /\ IF funcionario_normalizado(a) = get_funcionario_actual
            THEN UNCHANGED <<historial_asignaciones, domain_events>>
            ELSE /\ historial_asignaciones' =
                        Append(historial_asignaciones, HistorialAsignacion(a))
                 /\ domain_events' = Append(domain_events, ev)
         /\ Exito(comando)
    ELSE /\ UNCHANGED <<historial_asignaciones, domain_events>>
         /\ Falla(comando)

\* bug: the new record is inserted at the front of the historial
Registrar_al_frente(comando, a, ev) ==
    IF HistorialValido(a)
    THEN /\ historial_asignaciones' = <<HistorialAsignacion(a)>> \o historial_asignaciones
         /\ domain_events' = Append(domain_events, ev)
         /\ Exito(comando)
    ELSE /\ UNCHANGED <<historial_asignaciones, domain_events>>
         /\ Falla(comando)

\* the tail of every command: build the audit record (which may raise), and
\* only then append it and buffer the event
Registrar(comando, a, ev) ==
    IF HistorialValido(a)
    THEN /\ historial_asignaciones' = Append(historial_asignaciones, HistorialAsignacion(a))
         /\ domain_events' = Append(domain_events, ev)
         /\ Exito(comando)
    ELSE /\ UNCHANGED <<historial_asignaciones, domain_events>>
         /\ Falla(comando)

Construida == origen # "ninguna"
AceptaComando == Construida /\ Len(historial_asignaciones) < MaxHistorial

\* ---------------------------------------------------------------- factories
Init ==
    /\ hoy = 0
    /\ origen = "ninguna"
    /\ funcionario_creador = <<>>
    /\ estado = "ACTIVA"
    /\ historial_asignaciones = <<>>
    /\ domain_events = <<>>
    /\ entregados = <<>>
    /\ tipo_proceso_anterior = "NINGUNO"
    /\ proceso_traslado_activo = FALSE
    /\ proceso_radicacion_activo = FALSE
    /\ ultimo = "ok"
    /\ exitosos = 0
    /\ entidad = "ninguna"
    /\ estado_proceso = "NINGUNO"
    /\ observaciones_proceso = <<>>
    /\ funcionario_actual = <<>>
    /\ fecha_ultima_actualizacion = 0
    /\ fue_recibida = FALSE
    /\ prioridad = "MEDIA"
    /\ funcionario_resuelve = SinFuncionario
    /\ fecha_resolucion = SinFecha
    /\ descripcion_resolucion = NoneObs
    /\ fecha_reporte = 0
    /\ fecha_vencimiento = <<>>
    /\ nivel_consultado = "ninguno"
    /\ respuesta = SinRespuesta

\* Cuenta.crear_nueva_cuenta -> __post_init__
crear_nueva_cuenta(creador) ==
    /\ origen = "ninguna"
    /\ exitosos' = exitosos
    /\ UNCHANGED <<proceso_vars, hoy, entregados>>
    /\ IF strip(creador) = <<>>
       THEN /\ ultimo' = "error"
            /\ UNCHANGED <<origen, cuenta_vars>>
       ELSE /\ origen' = "nueva"
            /\ funcionario_creador' = strip(upper(creador))
            /\ estado' = "ACTIVA"
            /\ tipo_proceso_anterior' = "NINGUNO"
            /\ proceso_traslado_activo' = FALSE
            /\ proceso_radicacion_activo' = FALSE
            /\ historial_asignaciones' =
                   <<HistorialAsignacion(crear_asignacion_inicial(strip(upper(creador)), hoy))>>
            /\ domain_events' =
                   <<Evento("CuentaCreada", strip(upper(creador)), "", "", None)>>
            /\ ultimo' = "ok"

\* persisted audit records, built by the factories on some earlier day; a
\* persisted historial holds at least the record crear_nueva_cuenta seeded
EntradasRepo ==
    {HistorialAsignacion(crear_asignacion_inicial(F1, d)) : d \in 0..hoy}

HistorialesRepo ==
    UNION {[1..n -> EntradasRepo] : n \in 1..MaxHistorialRepo}

\* the same, with the empty historial of an account persisted before it kept
\* an audit trail
HistorialesPersistidos == {<<>>} \cup HistorialesRepo

\* bug: tipo_proceso_anterior is not restored
crear_desde_repositorio_sin_tipo(e, creador, historial, tpa, t, r) ==
    /\ origen = "ninguna"
    /\ exitosos' = exitosos
    /\ UNCHANGED <<proceso_vars, hoy, entregados>>
    /\ IF strip(upper(creador)) = <<>> \/ ~coherencia_estado(e, t, r)
       THEN /\ ultimo' = "error"
            /\ UNCHANGED <<origen, cuenta_vars>>
       ELSE /\ origen' = "repositorio"
            /\ funcionario_creador' = strip(upper(creador))
            /\ estado' = e
            /\ historial_asignaciones' = historial
            /\ domain_events' = <<>>
            /\ tipo_proceso_anterior' = "NINGUNO"
            /\ proceso_traslado_activo' = t
            /\ proceso_radicacion_activo' = r
            /\ ultimo' = "ok"

\* bug: the rebuilt account runs __post_init__, which seeds an empty historial
\* with the creation record
crear_desde_repositorio_siembra(e, creador, historial, tpa, t, r) ==
    /\ origen = "ninguna"
    /\ exitosos' = exitosos
    /\ UNCHANGED <<proceso_vars, hoy, entregados>>
    /\ IF strip(upper(creador)) = <<>> \/ ~coherencia_estado(e, t, r)
       THEN /\ ultimo' = "error"
            /\ UNCHANGED <<origen, cuenta_vars>>
       ELSE /\ origen' = "repositorio"
            /\ funcionario_creador' = strip(upper(creador))
            /\ estado' = e
            /\ historial_asignaciones' =
                   IF historial = <<>>
                   THEN <<HistorialAsignacion(
                            crear_asignacion_inicial(strip(upper(creador)), hoy))>>
                   ELSE historial
            /\ domain_events' = <<>>
            /\ tipo_proceso_anterior' = tpa
            /\ proceso_traslado_activo' = t
            /\ proceso_radicacion_activo' = r
            /\ ultimo' = "ok"

\* Cuenta.crear_desde_repositorio
crear_desde_repositorio(e, creador, historial, tpa, t, r) ==
    /\ origen = "ninguna"
    /\ exitosos' = exitosos
    /\ UNCHANGED <<proceso_vars, hoy, entregados>>
    /\ IF strip(upper(creador)) = <<>> \/ ~coherencia_estado(e, t, r)
       THEN /\ ultimo' = "error"
            /\ UNCHANGED <<origen, cuenta_vars>>
       ELSE /\ origen' = "repositorio"
            /\ funcionario_creador' = strip(upper(creador))
            /\ estado' = e
            /\ historial_asignaciones' = historial
            /\ domain_events' = <<>>
            /\ tipo_proceso_anterior' = tpa
            /\ proceso_traslado_activo' = t
            /\ proceso_radicacion_activo' = r
            /\ ultimo' = "ok"

\* ------------------------------------------------------------------ commands
iniciar_proceso_traslado(funcionario_id) ==
    /\ AceptaComando
    /\ UNCHANGED <<proceso_vars, hoy, origen, entregados, funcionario_creador>>
    /\ IF ~puede_iniciar_traslado
       THEN /\ Falla("iniciar_proceso_traslado")
            /\ UNCHANGED <<estado, historial_asignaciones, domain_events,
                           tipo_proceso_anterior, proceso_traslado_activo,
                           proceso_radicacion_activo>>
       ELSE /\ proceso_traslado_activo' = TRUE
            /\ estado' = "EN_TRASLADO"
            /\ UNCHANGED <<tipo_proceso_anterior, proceso_radicacion_activo>>
            /\ Registrar("iniciar_proceso_traslado",
                         crear_cambio_proceso(funcionario_id, "traslado", "inicio", None),
                         Evento("ProcesoIniciado", funcionario_id, "traslado", "", None))

iniciar_proceso_radicacion(funcionario_id) ==
    /\ AceptaComando
    /\ UNCHANGED <<proceso_vars, hoy, origen, entregados, funcionario_creador>>
    /\ IF ~puede_iniciar_radicacion
       THEN /\ Falla("iniciar_proceso_radicacion")
            /\ UNCHANGED <<estado, historial_asignaciones, domain_events,
                           tipo_proceso_anterior, proceso_traslado_activo,
                           proceso_radicacion_activo>>
       ELSE /\ proceso_radicacion_activo' = TRUE
            /\ estado' = "EN_RADICACION"
            /\ UNCHANGED <<tipo_proceso_anterior, proceso_traslado_activo>>
            /\ Registrar("iniciar_proceso_radicacion",
                         crear_cambio_proceso(funcionario_id, "radicacion", "inicio", None),
                         Evento("ProcesoIniciado", funcionario_id, "radicacion", "", None))

completar_proceso_traslado(funcionario_id) ==
    /\ AceptaComando
    /\ UNCHANGED <<proceso_vars, hoy, origen, entregados, funcionario_creador>>
    /\ IF ~tiene_traslado_activo
       THEN /\ Falla("completar_proceso_traslado")
            /\ UNCHANGED <<estado, historial_asignaciones, domain_events,
                           tipo_proceso_anterior, proceso_traslado_activo,
                           proceso_radicacion_activo>>
       ELSE LET a == crear_cambio_proceso(funcionario_id, "traslado", "completar", None)
            IN  /\ proceso_traslado_activo' = FALSE
                /\ tipo_proceso_anterior' = "TRASLADO_COMPLETADO"
                /\ estado' = "ACTIVA"
                /\ UNCHANGED proceso_radicacion_activo
                /\ Registrar("completar_proceso_traslado", a,
                             Evento("ProcesoCompletado", funcionario_id, "traslado",
                                    "completado", None))

completar_proceso_radicacion(funcionario_id) ==
    /\ AceptaComando
    /\ UNCHANGED <<proceso_vars, hoy, origen, entregados, funcionario_creador>>
    /\ IF ~tiene_radicacion_activa
       THEN /\ Falla("completar_proceso_radicacion")
            /\ UNCHANGED <<estado, historial_asignaciones, domain_events,
                           tipo_proceso_anterior, proceso_traslado_activo,
                           proceso_radicacion_activo>>
       ELSE LET a == crear_cambio_proceso(funcionario_id, "radicacion", "completar", None)
            IN  /\ proceso_radicacion_activo' = FALSE
                /\ tipo_proceso_anterior' = "RADICACION_COMPLETADA"
                /\ estado' = "ACTIVA"
                /\ UNCHANGED proceso_traslado_activo
                /\ Registrar("completar_proceso_radicacion", a,
                             Evento("ProcesoCompletado", funcionario_id, "radicacion",
                                    "completado", None))

devolver_proceso_traslado(funcionario_id, motivo) ==
    /\ AceptaComando
    /\ UNCHANGED <<proceso_vars, hoy, origen, entregados, funcionario_creador>>
    /\ IF ~tiene_traslado_activo
       THEN /\ Falla("devolver_proceso_traslado")
            /\ UNCHANGED <<estado, historial_asignaciones, domain_events,
                           tipo_proceso_anterior, proceso_traslado_activo,
                           proceso_radicacion_activo>>
       ELSE LET a == crear_cambio_proceso(funcionario_id, "traslado", "devolver", motivo)
            IN  /\ proceso_traslado_activo' = FALSE
                /\ tipo_proceso_anterior' = "TRASLADO_DEVUELTO"
                /\ estado' = "ACTIVA"
                /\ UNCHANGED proceso_radicacion_activo
                /\ Registrar("devolver_proceso_traslado", a,
                             Evento("ProcesoCompletado", funcionario_id, "traslado",
                                    "devuelto", motivo))

devolver_proceso_radicacion(funcionario_id, motivo) ==
    /\ AceptaComando
    /\ UNCHANGED <<proceso_vars, hoy, origen, entregados, funcionario_creador>>
    /\ IF ~tiene_radicacion_activa
       THEN /\ Falla("devolver_proceso_radicacion")
            /\ UNCHANGED <<estado, historial_asignaciones, domain_events,
                           tipo_proceso_anterior, proceso_traslado_activo,
                           proceso_radicacion_activo>>
       ELSE LET a == crear_cambio_proceso(funcionario_id, "radicacion", "devolver", motivo)
            IN  /\ proceso_radicacion_activo' = FALSE
                /\ tipo_proceso_anterior' = "RADICACION_DEVUELTA"
                /\ estado' = "ACTIVA"
                /\ UNCHANGED proceso_traslado_activo
                /\ Registrar("devolver_proceso_radicacion", a,
                             Evento("ProcesoCompletado", funcionario_id, "radicacion",
                                    "devuelto", motivo))

\* bug: an account that is already INACTIVA cannot be inactivated again
inactivar_cuenta_solo_activa(funcionario_id, motivo) ==
    /\ AceptaComando
    /\ UNCHANGED <<proceso_vars, hoy, origen, entregados, funcionario_creador>>
    /\ IF tiene_proceso_activo \/ esta_inactiva
       THEN /\ Falla("inactivar_cuenta")
            /\ UNCHANGED <<estado, historial_asignaciones, domain_events,
                           tipo_proceso_anterior, proceso_traslado_activo,
                           proceso_radicacion_activo>>
       ELSE /\ estado' = "INACTIVA"
            /\ UNCHANGED <<tipo_proceso_anterior, proceso_traslado_activo,
                           proceso_radicacion_activo>>
            /\ Registrar("inactivar_cuenta", crear_inactivacion(funcionario_id, motivo),
                         Evento("CuentaInactivada", funcionario_id, "", "", motivo))

inactivar_cuenta(funcionario_id, motivo) ==
    /\ AceptaComando
    /\ UNCHANGED <<proceso_vars, hoy, origen, entregados, funcionario_creador>>
    /\ IF tiene_proceso_activo
       THEN /\ Falla("inactivar_cuenta")
            /\ UNCHANGED <<estado, historial_asignaciones, domain_events,
                           tipo_proceso_anterior, proceso_traslado_activo,
                           proceso_radicacion_activo>>
       ELSE /\ estado' = "INACTIVA"
            /\ UNCHANGED <<tipo_proceso_anterior, proceso_traslado_activo,
                           proceso_radicacion_activo>>
            /\ Registrar("inactivar_cuenta", crear_inactivacion(funcionario_id, motivo),
                         Evento("CuentaInactivada", funcionario_id, "", "", motivo))

\* bug: reactivation forgets the previous process
reactivar_cuenta_reinicia(funcionario_id) ==
    /\ AceptaComando
    /\ UNCHANGED <<proceso_vars, hoy, origen, entregados, funcionario_creador>>
    /\ IF estado # "INACTIVA"
       THEN /\ Falla("reactivar_cuenta")
            /\ UNCHANGED <<estado, historial_asignaciones, domain_events,
                           tipo_proceso_anterior, proceso_traslado_activo,
                           proceso_radicacion_activo>>
       ELSE /\ estado' = "ACTIVA"
            /\ tipo_proceso_anterior' = "NINGUNO"
            /\ UNCHANGED <<proceso_traslado_activo, proceso_radicacion_activo>>
            /\ Registrar("reactivar_cuenta", crear_reactivacion(funcionario_id),
                         Evento("CuentaReactivada", funcionario_id, "", "", None))

reactivar_cuenta(funcionario_id) ==
    /\ AceptaComando
    /\ UNCHANGED <<proceso_vars, hoy, origen, entregados, funcionario_creador>>
    /\ IF estado # "INACTIVA"
       THEN /\ Falla("reactivar_cuenta")
            /\ UNCHANGED <<estado, historial_asignaciones, domain_events,
                           tipo_proceso_anterior, proceso_traslado_activo,
                           proceso_radicacion_activo>>
       ELSE /\ estado' = "ACTIVA"
            /\ UNCHANGED <<tipo_proceso_anterior, proceso_traslado_activo,
                           proceso_radicacion_activo>>
            /\ Registrar("reactivar_cuenta", crear_reactivacion(funcionario_id),
                         Evento("CuentaReactivada", funcionario_id, "", "", None))

\* bug: reassignment is refused while a process is under way
reasignar_funcionario_bloqueada(nuevo_funcionario_id, funcionario_autoriza, motivo, observaciones) ==
    /\ AceptaComando
    /\ UNCHANGED <<proceso_vars, hoy, origen, entregados, funcionario_creador, estado, tipo_proceso_anterior,
                   proceso_traslado_activo, proceso_radicacion_activo>>
    /\ IF tiene_proceso_activo \/ upper(nuevo_funcionario_id) = get_funcionario_actual
       THEN /\ Falla("reasignar_funcionario")
            /\ UNCHANGED <<historial_asignaciones, domain_events>>
       ELSE Registrar("reasignar_funcionario",
                      crear_reasignacion_manual(nuevo_funcionario_id, funcionario_autoriza,
                                                motivo, observaciones),
                      Evento("CuentaReasignada", nuevo_funcionario_id, "", "", motivo))

reasignar_funcionario(nuevo_funcionario_id, funcionario_autoriza, motivo, observaciones) ==
    /\ AceptaComando
    /\ UNCHANGED <<proceso_vars, hoy, origen, entregados, funcionario_creador, estado, tipo_proceso_anterior, proceso_traslado_activo,
                   proceso_radicacion_activo>>
    /\ IF upper(nuevo_funcionario_id) = get_funcionario_actual
       THEN /\ Falla("reasignar_funcionario")
            /\ UNCHANGED <<historial_asignaciones, domain_events>>
       ELSE Registrar("reasignar_funcionario",
                      crear_reasignacion_manual(nuevo_funcionario_id, funcionario_autoriza,
                                                motivo, observaciones),
                      Evento("CuentaReasignada", nuevo_funcionario_id, "", "", motivo))

\* bug: the buffer is returned but not cleared
get_domain_events_sin_limpiar ==
    /\ Construida
    /\ entregados' = entregados \o domain_events
    /\ ultimo' = "ok"
    /\ UNCHANGED <<proceso_vars, hoy, origen, domain_events, funcionario_creador, estado,
                   historial_asignaciones, tipo_proceso_anterior,
                   proceso_traslado_activo, proceso_radicacion_activo, exitosos>>

\* Cuenta.get_domain_events: hand a copy of the buffer to the caller and clear
\* the buffer; the returned list is appended to entregados
get_domain_events ==
    /\ Construida
    /\ entregados' = entregados \o domain_events
    /\ domain_events' = <<>>
    /\ ultimo' = "ok"
    /\ UNCHANGED <<proceso_vars, hoy, origen, funcionario_creador, estado,
                   historial_asignaciones, tipo_proceso_anterior,
                   proceso_traslado_activo, proceso_radicacion_activo, exitosos>>

\* the calendar day changes
PasaElDia ==
    /\ hoy < MaxDia
    /\ hoy' = hoy + 1
    /\ UNCHANGED <<origen, cuenta_vars, entregados, ultimo, exitosos, proceso_vars>>

Next ==
    \/ \E c \in CreadoresEntrada : crear_nueva_cuenta(c)
    \/ \E e \in EstadoCuenta, c \in CreadoresEntrada,
          h \in HistorialesRepo, tpa \in TipoProcesoAnterior, t \in BOOLEAN, r \in BOOLEAN :
          crear_desde_repositorio(e, c, h, tpa, t, r)
    \/ \E f \in FuncionariosEntrada : iniciar_proceso_traslado(f)
    \/ \E f \in FuncionariosEntrada : iniciar_proceso_radicacion(f)
    \/ \E f \in FuncionariosEntrada : completar_proceso_traslado(f)
    \/ \E f \in FuncionariosEntrada : completar_proceso_radicacion(f)
    \/ \E f \in FuncionariosEntrada, m \in TextosEntrada : devolver_proceso_traslado(f, m)
    \/ \E f \in FuncionariosEntrada, m \in TextosEntrada : devolver_proceso_radicacion(f, m)
    \/ \E f \in FuncionariosEntrada, m \in TextosEntrada : inactivar_cuenta(f, m)
    \/ \E f \in FuncionariosEntrada : reactivar_cuenta(f)
    \/ \E f \in FuncionariosEntrada, s \in AutorizaEntrada, m \in TextosEntrada,
          o \in ObservacionesEntrada : reasignar_funcionario(f, s, m, o)
    \/ get_domain_events
    \/ PasaElDia

Spec == Init /\ [][Next]_vars

\* a caller asks the account whether each process may start, why not, and
\* which processes are allowed
consultar ==
    /\ Construida
    /\ respuesta' =
          [puede_iniciar_traslado |-> puede_iniciar_traslado,
           puede_iniciar_radicacion |-> puede_iniciar_radicacion,
           razon_no_puede_trasladar |-> get_razon_no_puede_trasladar,
           razon_no_puede_radicar |-> get_razon_no_puede_radicar,
           procesos_permitidos |-> get_procesos_permitidos]
    /\ UNCHANGED <<hoy, origen, cuenta_vars, entregados, ultimo, exitosos, entidad,
                   estado_proceso, observaciones_proceso, funcionario_actual,
                   fecha_ultima_actualizacion, fue_recibida, prioridad,
                   funcionario_resuelve, fecha_resolucion, descripcion_resolucion,
                   fecha_reporte, vencimiento_vars>>

\* the commands of the account interleaved with its queries
NextConsultas ==
    \/ Next
    \/ consultar

ConsultasSpec == Init /\ [][NextConsultas]_vars

\* the two factories alone, the repository handing over any persisted
\* historial, the empty one included
NextFabricas ==
    \/ \E c \in CreadoresEntrada : crear_nueva_cuenta(c)
    \/ \E e \in EstadoCuenta, c \in CreadoresEntrada,
          h \in HistorialesPersistidos, tpa \in TipoProcesoAnterior,
          t \in BOOLEAN, r \in BOOLEAN :
          crear_desde_repositorio(e, c, h, tpa, t, r)
    \/ PasaElDia

FabricasSpec == Init /\ [][NextFabricas]_vars

\* motivos a caller may pass to devolver_proceso_*: short ones and the lengths
\* around MAX_MOTIVO, with and without the prefix the audit record adds
MotivosLimite ==
    {Texto(0, n, 0) : n \in {2, MAX_MOTIVO - 22, MAX_MOTIVO - 21, MAX_MOTIVO - 20,
                             MAX_MOTIVO - 19, MAX_MOTIVO - 18,
                             MAX_MOTIVO, MAX_MOTIVO + 1}}

\* a new account on which processes are started and returned
NextDevolucion ==
    \/ \E c \in CreadoresEntrada : crear_nueva_cuenta(c)
    \/ \E f \in FuncionariosEntrada : iniciar_proceso_traslado(f)
    \/ \E f \in FuncionariosEntrada : iniciar_proceso_radicacion(f)
    \/ \E f \in FuncionariosEntrada, m \in MotivosLimite : devolver_proceso_traslado(f, m)
    \/ \E f \in FuncionariosEntrada, m \in MotivosLimite : devolver_proceso_radicacion(f, m)

DevolucionSpec == Init /\ [][NextDevolucion]_vars

\* ---------------------------------------------------------- FechaVencimiento
PLAZO_DIAS == 60
\* dates of the paperwork a caller may pass, in days from the first day of the
\* run: those whose deadline falls around today, and the limits FechaTramite
\* accepts
TramitesEntrada == (-70 .. -48) \cup {-366, -365, 30, 31}

\* FechaTramite.__post_init__
FechaTramiteValida(fecha) == fecha <= hoy + 30 /\ fecha >= hoy - 365
\* the FechaTramite objects that can be built today out of those dates
TramitesValidos == {t \in TramitesEntrada : FechaTramiteValida(t)}
\* the FechaTramite of a process started during the run: FechaTramite.crear_hoy()
\* of today or of an earlier day of the run
TramitesProceso == 0..hoy

\* mutant: the critical period ends one day earlier
nivel_urgencia_corrida(fecha, today) ==
    LET dias == fecha - today
    IN  IF dias < 0 THEN "vencida"
        ELSE IF dias < 3 THEN "critica"
        ELSE IF dias <= 7 THEN "alerta"
        ELSE "normal"

\* FechaVencimiento.dias_restantes
dias_restantes(fecha, today) == fecha - today

\* FechaVencimiento.nivel_urgencia
nivel_urgencia(fecha, today) ==
    LET dias == dias_restantes(fecha, today)
    IN  IF dias < 0 THEN "vencida"
        ELSE IF dias <= 3 THEN "critica"
        ELSE IF dias <= 7 THEN "alerta"
        ELSE "normal"

\* FechaVencimiento.calcular_desde_tramite
calcular_desde_tramite(fecha_tramite) == fecha_tramite + PLAZO_DIAS

\* ------------------------------------------------------- process entities
\* texts a caller may pass to a process command: "ok", an empty and a blank
\* one, a long one (two of them do not fit MAX_OBSERVACIONES together), one
\* with markup
TextosProceso ==
    {TextoObs(0, 2, 0, "limpio"), TextoObs(0, 0, 0, "limpio"),
     TextoObs(1, 0, 1, "limpio"), TextoObs(0, 600, 0, "limpio"),
     TextoObs(0, 8, 0, "script")}
TextosOpcionales == {NoneObs, TextoObs(0, 2, 0, "limpio")}
\* Ubicacion.get_nombre_corto() of the organismo the entity was built with
Organismo == <<"S", "o", "g", "a", "m", "o", "s", "o">>

\* everything outside the process entity, the outcome excepted
fuera_del_proceso == <<hoy, origen, cuenta_vars, entregados, exitosos, consulta_vars>>
campos_novedad ==
    <<prioridad, funcionario_resuelve, fecha_resolucion, descripcion_resolucion,
      fecha_reporte>>
campos_proceso ==
    <<estado_proceso, observaciones_proceso, funcionario_actual, fecha_ultima_actualizacion>>

\* a command is issued on the entity of class c while it holds few notes
EmiteComando(c) == entidad = c /\ NumeroDeNotas(observaciones_proceso) < MaxNotas

\* the command raised before touching the entity
Rehusa ==
    /\ ultimo' = "error"
    /\ UNCHANGED <<campos_proceso, campos_novedad, fue_recibida>>

\* the assignment of observaciones_proceso that ends a command, or the ValueError
\* raised in its place
Anota(resultado) ==
    IF resultado.ok
    THEN observaciones_proceso' = resultado.valor /\ ultimo' = "ok"
    ELSE UNCHANGED observaciones_proceso /\ ultimo' = "error"

\* ------------------------------------------------------------------ Traslado
EstadoTraslado ==
    {"ENVIADO_ORGANISMO_DESTINO", "REVISADO", "CON_NOVEDADES", "TRASLADADO", "DEVUELTO"}

\* EstadoTraslado._get_transiciones_permitidas
transiciones_traslado(e) ==
    CASE e = "ENVIADO_ORGANISMO_DESTINO" -> {"REVISADO"}
      [] e = "REVISADO" -> {"TRASLADADO", "CON_NOVEDADES"}
      [] e = "CON_NOVEDADES" -> {"REVISADO"}
      [] e = "TRASLADADO" -> {}
      [] e = "DEVUELTO" -> {}

\* EstadoTraslado.puede_transicionar_a
traslado_puede_transicionar_a(e, nuevo_estado, es_admin) ==
    IF es_admin /\ nuevo_estado = "DEVUELTO"
    THEN TRUE
    ELSE nuevo_estado \in transiciones_traslado(e)

\* mutant: a returned traslado is not final
traslado_es_estado_final_solo_trasladado(e) == e = "TRASLADADO"

\* EstadoTraslado.es_estado_final
traslado_es_estado_final(e) == e \in {"TRASLADADO", "DEVUELTO"}

\* mutant: an administrator may return a traslado from any state
puede_ser_devuelto_siempre(e, es_admin) ==
    IF es_admin THEN TRUE ELSE traslado_puede_transicionar_a(e, "DEVUELTO", es_admin)

\* Traslado.puede_ser_devuelto
puede_ser_devuelto(e, es_admin) ==
    IF es_admin
    THEN ~traslado_es_estado_final(e)
    ELSE traslado_puede_transicionar_a(e, "DEVUELTO", es_admin)

\* Traslado.crear_nuevo -> __post_init__
Traslado_crear_nuevo(fecha_tramite, funcionario_envia, observaciones_iniciales) ==
    /\ entidad = "ninguna"
    /\ LET inicial ==
               IF EsVerdadero(observaciones_iniciales)
               THEN crear_con_timestamp(Libre(observaciones_iniciales),
                                        Sospechoso(observaciones_iniciales),
                                        funcionario_envia)
               ELSE Aceptada(<<>>)
       IN  IF inicial.ok /\ strip(funcionario_envia) # <<>>
           THEN /\ entidad' = "Traslado"
                /\ estado_proceso' = "ENVIADO_ORGANISMO_DESTINO"
                /\ observaciones_proceso' = inicial.valor
                /\ funcionario_actual' = upper(strip(funcionario_envia))
                /\ fecha_ultima_actualizacion' = hoy
                /\ fecha_vencimiento' = <<calcular_desde_tramite(fecha_tramite)>>
                /\ ultimo' = "ok"
           ELSE /\ ultimo' = "error"
                /\ UNCHANGED <<entidad, campos_proceso, fecha_vencimiento>>
    /\ UNCHANGED <<hoy, origen, cuenta_vars, entregados, exitosos, nivel_consultado,
                   respuesta, campos_novedad, fue_recibida>>

\* Traslado.marcar_como_revisado
Traslado_marcar_como_revisado(funcionario_id) ==
    /\ EmiteComando("Traslado")
    /\ IF estado_proceso = "ENVIADO_ORGANISMO_DESTINO"
       THEN /\ estado_proceso' = "REVISADO"
            /\ funcionario_actual' = upper(strip(funcionario_id))
            /\ fecha_ultima_actualizacion' = hoy
            /\ ultimo' = "ok"
            /\ UNCHANGED <<observaciones_proceso, campos_novedad, fue_recibida>>
       ELSE Rehusa
    /\ UNCHANGED <<fuera_del_proceso, entidad>>

\* Traslado.completar_traslado
Traslado_completar_traslado(funcionario_id, observaciones_finales) ==
    /\ EmiteComando("Traslado")
    /\ IF estado_proceso = "REVISADO"
       THEN /\ estado_proceso' = "TRASLADADO"
            /\ funcionario_actual' = upper(strip(funcionario_id))
            /\ fecha_ultima_actualizacion' = hoy
            /\ IF EsVerdadero(observaciones_finales)
               THEN LET obs_con_timestamp ==
                            agregar_timestamp_automatico(observaciones_proceso, funcionario_id)
                    IN  Anota(IF obs_con_timestamp.ok
                              THEN Observacion(
                                       obs_con_timestamp.valor
                                       \o <<Rotulado(<<"COMPLETADO">>, observaciones_finales)>>,
                                       Sospechoso(observaciones_finales))
                              ELSE Rechazada)
               ELSE UNCHANGED observaciones_proceso /\ ultimo' = "ok"
            /\ UNCHANGED <<campos_novedad, fue_recibida>>
       ELSE Rehusa
    /\ UNCHANGED <<fuera_del_proceso, entidad>>

\* Traslado.reportar_novedad
Traslado_reportar_novedad(funcionario_id, descripcion_novedad) ==
    /\ EmiteComando("Traslado")
    /\ IF estado_proceso = "REVISADO"
       THEN /\ estado_proceso' = "CON_NOVEDADES"
            /\ funcionario_actual' = upper(strip(funcionario_id))
            /\ fecha_ultima_actualizacion' = hoy
            /\ Anota(ConNota(observaciones_proceso,
                             <<Rotulado(<<"NOVEDAD REPORTADA">>, descripcion_novedad)>>,
                             Sospechoso(descripcion_novedad), funcionario_id))
            /\ UNCHANGED <<campos_novedad, fue_recibida>>
       ELSE Rehusa
    /\ UNCHANGED <<fuera_del_proceso, entidad>>

\* Traslado.resolver_novedad
Traslado_resolver_novedad(funcionario_id, descripcion_resolucion_) ==
    /\ EmiteComando("Traslado")
    /\ IF estado_proceso = "CON_NOVEDADES"
       THEN /\ estado_proceso' = "REVISADO"
            /\ funcionario_actual' = upper(strip(funcionario_id))
            /\ fecha_ultima_actualizacion' = hoy
            /\ Anota(ConNota(observaciones_proceso,
                             <<Rotulado(<<"NOVEDAD RESUELTA">>, descripcion_resolucion_)>>,
                             Sospechoso(descripcion_resolucion_), funcionario_id))
            /\ UNCHANGED <<campos_novedad, fue_recibida>>
       ELSE Rehusa
    /\ UNCHANGED <<fuera_del_proceso, entidad>>

\* Traslado.devolver_traslado
Traslado_devolver_traslado(funcionario_id, motivo_devolucion, es_admin) ==
    /\ EmiteComando("Traslado")
    /\ IF puede_ser_devuelto(estado_proceso, es_admin)
       THEN /\ estado_proceso' = "DEVUELTO"
            /\ funcionario_actual' = upper(strip(funcionario_id))
            /\ fecha_ultima_actualizacion' = hoy
            /\ Anota(ConNota(observaciones_proceso,
                             <<Rotulado(<<"TRASLADO DEVUELTO">>, motivo_devolucion)>>,
                             Sospechoso(motivo_devolucion), funcionario_id))
            /\ UNCHANGED <<campos_novedad, fue_recibida>>
       ELSE Rehusa
    /\ UNCHANGED <<fuera_del_proceso, entidad>>

\* Traslado.actualizar_observaciones
Traslado_actualizar_observaciones(funcionario_id, nuevas_observaciones) ==
    /\ EmiteComando("Traslado")
    /\ IF traslado_es_estado_final(estado_proceso)
       THEN Rehusa
       ELSE LET nueva_obs == ConNota(observaciones_proceso, Libre(nuevas_observaciones),
                                     Sospechoso(nuevas_observaciones), funcionario_id)
            IN  /\ Anota(nueva_obs)
                /\ fecha_ultima_actualizacion' =
                       IF nueva_obs.ok THEN hoy ELSE fecha_ultima_actualizacion
                /\ UNCHANGED <<estado_proceso, funcionario_actual, campos_novedad,
                               fue_recibida>>
    /\ UNCHANGED <<fuera_del_proceso, entidad>>

\* ---------------------------------------------------------------- Radicacion
EstadoRadicacion ==
    {"PENDIENTE_RADICAR", "RECIBIDO", "REVISADO", "CON_NOVEDADES", "RADICADO", "DEVUELTO"}

\* EstadoRadicacion._get_transiciones_permitidas
transiciones_radicacion(e) ==
    CASE e = "PENDIENTE_RADICAR" -> {"RECIBIDO"}
      [] e = "RECIBIDO" -> {"REVISADO"}
      [] e = "REVISADO" -> {"RADICADO", "CON_NOVEDADES"}
      [] e = "CON_NOVEDADES" -> {"REVISADO"}
      [] e = "RADICADO" -> {}
      [] e = "DEVUELTO" -> {}

\* EstadoRadicacion.puede_transicionar_a
radicacion_puede_transicionar_a(e, nuevo_estado, es_admin) ==
    IF es_admin /\ nuevo_estado = "DEVUELTO"
    THEN TRUE
    ELSE nuevo_estado \in transiciones_radicacion(e)

\* EstadoRadicacion.es_estado_final
radicacion_es_estado_final(e) == e \in {"RADICADO", "DEVUELTO"}

\* mutant: an administrator may return a radicacion from any state
puede_ser_devuelta_siempre(e, es_admin) ==
    IF es_admin THEN TRUE ELSE radicacion_puede_transicionar_a(e, "DEVUELTO", es_admin)

\* Radicacion.puede_ser_devuelta
puede_ser_devuelta(e, es_admin) ==
    IF es_admin
    THEN ~radicacion_es_estado_final(e)
    ELSE radicacion_puede_transicionar_a(e, "DEVUELTO", es_admin)

\* Radicacion.crear_nueva -> __post_init__
Radicacion_crear_nueva(fecha_tramite, funcionario_recibe, observaciones_iniciales) ==
    /\ entidad = "ninguna"
    /\ LET inicial ==
               IF EsVerdadero(observaciones_iniciales)
               THEN crear_con_timestamp(Libre(observaciones_iniciales),
                                        Sospechoso(observaciones_iniciales),
                                        funcionario_recibe)
               ELSE Aceptada(<<>>)
       IN  IF inicial.ok /\ strip(funcionario_recibe) # <<>>
           THEN /\ entidad' = "Radicacion"
                /\ estado_proceso' = "PENDIENTE_RADICAR"
                /\ observaciones_proceso' = inicial.valor
                /\ funcionario_actual' = upper(strip(funcionario_recibe))
                /\ fecha_ultima_actualizacion' = hoy
                /\ fue_recibida' = FALSE
                /\ fecha_vencimiento' = <<calcular_desde_tramite(fecha_tramite)>>
                /\ ultimo' = "ok"
           ELSE /\ ultimo' = "error"
                /\ UNCHANGED <<entidad, campos_proceso, fue_recibida, fecha_vencimiento>>
    /\ UNCHANGED <<hoy, origen, cuenta_vars, entregados, exitosos, nivel_consultado,
                   respuesta, campos_novedad>>

\* Radicacion.marcar_como_recibida
Radicacion_marcar_como_recibida(funcionario_id) ==
    /\ EmiteComando("Radicacion")
    /\ IF estado_proceso = "PENDIENTE_RADICAR"
       THEN /\ estado_proceso' = "RECIBIDO"
            /\ funcionario_actual' = upper(strip(funcionario_id))
            /\ fecha_ultima_actualizacion' = hoy
            /\ fue_recibida' = TRUE
            /\ Anota(ConNota(observaciones_proceso,
                             <<Tramo("texto", <<"Radicación recibida del">>, Organismo, 0)>>,
                             FALSE, funcionario_id))
            /\ UNCHANGED campos_novedad
       ELSE Rehusa
    /\ UNCHANGED <<fuera_del_proceso, entidad>>

\* Radicacion.marcar_como_revisada
Radicacion_marcar_como_revisada(funcionario_id) ==
    /\ EmiteComando("Radicacion")
    /\ IF estado_proceso = "RECIBIDO"
       THEN /\ estado_proceso' = "REVISADO"
            /\ funcionario_actual' = upper(strip(funcionario_id))
            /\ fecha_ultima_actualizacion' = hoy
            /\ ultimo' = "ok"
            /\ UNCHANGED <<observaciones_proceso, campos_novedad, fue_recibida>>
       ELSE Rehusa
    /\ UNCHANGED <<fuera_del_proceso, entidad>>

\* Radicacion.completar_radicacion
Radicacion_completar_radicacion(funcionario_id, observaciones_finales) ==
    /\ EmiteComando("Radicacion")
    /\ IF estado_proceso = "REVISADO"
       THEN /\ estado_proceso' = "RADICADO"
            /\ funcionario_actual' = upper(strip(funcionario_id))
            /\ fecha_ultima_actualizacion' = hoy
            /\ IF EsVerdadero(observaciones_finales)
               THEN LET obs_con_timestamp ==
                            agregar_timestamp_automatico(observaciones_proceso, funcionario_id)
                    IN  Anota(IF obs_con_timestamp.ok
                              THEN Observacion(
                                       obs_con_timestamp.valor
                                       \o <<Rotulado(<<"COMPLETADA">>, observaciones_finales)>>,
                                       Sospechoso(observaciones_finales))
                              ELSE Rechazada)
               ELSE UNCHANGED observaciones_proceso /\ ultimo' = "ok"
            /\ UNCHANGED <<campos_novedad, fue_recibida>>
       ELSE Rehusa
    /\ UNCHANGED <<fuera_del_proceso, entidad>>

\* Radicacion.reportar_novedad
Radicacion_reportar_novedad(funcionario_id, descripcion_novedad) ==
    /\ EmiteComando("Radicacion")
    /\ IF estado_proceso = "REVISADO"
       THEN /\ estado_proceso' = "CON_NOVEDADES"
            /\ funcionario_actual' = upper(strip(funcionario_id))
            /\ fecha_ultima_actualizacion' = hoy
            /\ Anota(ConNota(observaciones_proceso,
                             <<Rotulado(<<"NOVEDAD REPORTADA">>, descripcion_novedad)>>,
                             Sospechoso(descripcion_novedad), funcionario_id))
            /\ UNCHANGED <<campos_novedad, fue_recibida>>
       ELSE Rehusa
    /\ UNCHANGED <<fuera_del_proceso, entidad>>

\* Radicacion.resolver_novedad
Radicacion_resolver_novedad(funcionario_id, descripcion_resolucion_) ==
    /\ EmiteComando("Radicacion")
    /\ IF estado_proceso = "CON_NOVEDADES"
       THEN /\ estado_proceso' = "REVISADO"
            /\ funcionario_actual' = upper(strip(funcionario_id))
            /\ fecha_ultima_actualizacion' = hoy
            /\ Anota(ConNota(observaciones_proceso,
                             <<Rotulado(<<"NOVEDAD RESUELTA">>, descripcion_resolucion_)>>,
                             Sospechoso(descripcion_resolucion_), funcionario_id))
            /\ UNCHANGED <<campos_novedad, fue_recibida>>
       ELSE Rehusa
    /\ UNCHANGED <<fuera_del_proceso, entidad>>

\* Radicacion.devolver_radicacion
Radicacion_devolver_radicacion(funcionario_id, motivo_devolucion, es_admin) ==
    /\ EmiteComando("Radicacion")
    /\ IF puede_ser_devuelta(estado_proceso, es_admin)
       THEN /\ estado_proceso' = "DEVUELTO"
            /\ funcionario_actual' = upper(strip(funcionario_id))
            /\ fecha_ultima_actualizacion' = hoy
            /\ Anota(ConNota(observaciones_proceso,
                             <<Rotulado(<<"RADICACIÓN DEVUELTA">>, motivo_devolucion)>>,
                             Sospechoso(motivo_devolucion), funcionario_id))
            /\ UNCHANGED <<campos_novedad, fue_recibida>>
       ELSE Rehusa
    /\ UNCHANGED <<fuera_del_proceso, entidad>>

\* Radicacion.actualizar_observaciones
Radicacion_actualizar_observaciones(funcionario_id, nuevas_observaciones) ==
    /\ EmiteComando("Radicacion")
    /\ IF radicacion_es_estado_final(estado_proceso)
       THEN Rehusa
       ELSE LET nueva_obs == ConNota(observaciones_proceso, Libre(nuevas_observaciones),
                                     Sospechoso(nuevas_observaciones), funcionario_id)
            IN  /\ Anota(nueva_obs)
                /\ fecha_ultima_actualizacion' =
                       IF nueva_obs.ok THEN hoy ELSE fecha_ultima_actualizacion
                /\ UNCHANGED <<estado_proceso, funcionario_actual, campos_novedad,
                               fue_recibida>>
    /\ UNCHANGED <<fuera_del_proceso, entidad>>

\* ------------------------------------------------------------------- Novedad
EstadoNovedad == {"PENDIENTE", "EN_REVISION", "RESUELTA", "REABIERTA"}
PrioridadNovedad == {"BAJA", "MEDIA", "ALTA", "CRITICA"}
PrioridadesEntrada == {"MEDIA", "ALTA"}

\* EstadoNovedad._get_transiciones_permitidas
transiciones_novedad(e) ==
    CASE e = "PENDIENTE" -> {"EN_REVISION", "RESUELTA"}
      [] e = "EN_REVISION" -> {"RESUELTA", "PENDIENTE"}
      [] e = "RESUELTA" -> {"REABIERTA"}
      [] e = "REABIERTA" -> {"EN_REVISION", "RESUELTA"}

\* EstadoNovedad.puede_transicionar_a
novedad_puede_transicionar_a(e, nuevo_estado) == nuevo_estado \in transiciones_novedad(e)

\* Novedad.esta_resuelta
esta_resuelta(e) == e = "RESUELTA"
\* mutant: a novedad may be taken in review from any state
puede_pasar_a_revision_siempre(e) == TRUE

\* Novedad.puede_pasar_a_revision
puede_pasar_a_revision(e) == novedad_puede_transicionar_a(e, "EN_REVISION")
\* Novedad.puede_ser_resuelta
puede_ser_resuelta(e) == novedad_puede_transicionar_a(e, "RESUELTA")
\* Novedad.puede_ser_reabierta
puede_ser_reabierta(e) == novedad_puede_transicionar_a(e, "REABIERTA")
\* mutant: the priority of a resolved novedad may be changed
puede_cambiar_prioridad_siempre(e) == TRUE

\* Novedad.puede_cambiar_prioridad
puede_cambiar_prioridad(e) == ~esta_resuelta(e)

\* mutant: no text counts as blank
EnBlanco_nunca(texto) == FALSE

\* "not texto or not texto.strip()"
EnBlanco(texto) == ~EsVerdadero(texto) \/ texto.nucleo = 0
\* str.strip() on a text handed to a process command
strip_obs(texto) == TextoObs(0, texto.nucleo, 0, texto.clase)

\* Novedad.crear_nueva -> __post_init__
Novedad_crear_nueva(prioridad_, funcionario_reporta, observaciones_iniciales) ==
    /\ entidad = "ninguna"
    /\ LET inicial ==
               IF EsVerdadero(observaciones_iniciales)
               THEN crear_con_timestamp(Libre(observaciones_iniciales),
                                        Sospechoso(observaciones_iniciales),
                                        funcionario_reporta)
               ELSE Aceptada(<<>>)
       IN  IF inicial.ok /\ strip(funcionario_reporta) # <<>>
           THEN /\ entidad' = "Novedad"
                /\ estado_proceso' = "PENDIENTE"
                /\ prioridad' = prioridad_
                /\ observaciones_proceso' = inicial.valor
                /\ funcionario_actual' = upper(strip(funcionario_reporta))
                /\ fecha_ultima_actualizacion' = hoy
                /\ funcionario_resuelve' = SinFuncionario
                /\ fecha_resolucion' = SinFecha
                /\ descripcion_resolucion' = NoneObs
                /\ fecha_reporte' = hoy
                /\ ultimo' = "ok"
           ELSE /\ ultimo' = "error"
                /\ UNCHANGED <<entidad, campos_proceso, campos_novedad>>
    /\ UNCHANGED <<fuera_del_proceso, fue_recibida>>

\* Novedad.tomar_en_revision
Novedad_tomar_en_revision(funcionario_id) ==
    /\ EmiteComando("Novedad")
    /\ IF puede_pasar_a_revision(estado_proceso)
       THEN /\ estado_proceso' = "EN_REVISION"
            /\ funcionario_actual' = upper(strip(funcionario_id))
            /\ fecha_ultima_actualizacion' = hoy
            /\ Anota(ConNota(observaciones_proceso,
                             <<Tramo("texto", <<"Novedad tomada en revisión por">>,
                                     strip(funcionario_id), 0)>>,
                             FALSE, funcionario_id))
            /\ UNCHANGED <<campos_novedad, fue_recibida>>
       ELSE Rehusa
    /\ UNCHANGED <<fuera_del_proceso, entidad>>

\* Novedad.resolver_novedad
Novedad_resolver_novedad(funcionario_id, descripcion_resolucion_) ==
    /\ EmiteComando("Novedad")
    /\ IF puede_ser_resuelta(estado_proceso) /\ ~EnBlanco(descripcion_resolucion_)
       THEN /\ estado_proceso' = "RESUELTA"
            /\ funcionario_resuelve' = upper(strip(funcionario_id))
            /\ funcionario_actual' = upper(strip(funcionario_id))
            /\ fecha_resolucion' = hoy
            /\ fecha_ultima_actualizacion' = hoy
            /\ descripcion_resolucion' = strip_obs(descripcion_resolucion_)
            /\ Anota(ConNota(observaciones_proceso,
                             <<Rotulado(<<"NOVEDAD RESUELTA">>, descripcion_resolucion_)>>,
                             Sospechoso(descripcion_resolucion_), funcionario_id))
            /\ UNCHANGED <<prioridad, fecha_reporte, fue_recibida>>
       ELSE Rehusa
    /\ UNCHANGED <<fuera_del_proceso, entidad>>

\* Novedad.reabrir_novedad
Novedad_reabrir_novedad(funcionario_id, motivo_reapertura) ==
    /\ EmiteComando("Novedad")
    /\ IF puede_ser_reabierta(estado_proceso) /\ ~EnBlanco(motivo_reapertura)
       THEN /\ estado_proceso' = "REABIERTA"
            /\ funcionario_actual' = upper(strip(funcionario_id))
            /\ fecha_ultima_actualizacion' = hoy
            /\ funcionario_resuelve' = SinFuncionario
            /\ fecha_resolucion' = SinFecha
            /\ descripcion_resolucion' = NoneObs
            /\ Anota(ConNota(observaciones_proceso,
                             <<Rotulado(<<"NOVEDAD REABIERTA">>, motivo_reapertura)>>,
                             Sospechoso(motivo_reapertura), funcionario_id))
            /\ UNCHANGED <<prioridad, fecha_reporte, fue_recibida>>
       ELSE Rehusa
    /\ UNCHANGED <<fuera_del_proceso, entidad>>

\* Novedad.cambiar_prioridad
Novedad_cambiar_prioridad(funcionario_id, nueva_prioridad, justificacion) ==
    /\ EmiteComando("Novedad")
    /\ IF /\ puede_cambiar_prioridad(estado_proceso)
          /\ nueva_prioridad # prioridad
          /\ ~EnBlanco(justificacion)
       THEN /\ prioridad' = nueva_prioridad
            /\ funcionario_actual' = upper(strip(funcionario_id))
            /\ fecha_ultima_actualizacion' = hoy
            /\ Anota(ConNota(observaciones_proceso,
                             <<Rotulado(<<"PRIORIDAD CAMBIADA", prioridad, nueva_prioridad>>,
                                        justificacion)>>,
                             Sospechoso(justificacion), funcionario_id))
            /\ UNCHANGED <<estado_proceso, funcionario_resuelve, fecha_resolucion,
                           descripcion_resolucion, fecha_reporte, fue_recibida>>
       ELSE Rehusa
    /\ UNCHANGED <<fuera_del_proceso, entidad>>

\* Novedad.actualizar_observaciones
Novedad_actualizar_observaciones(funcionario_id, nuevas_observaciones) ==
    /\ EmiteComando("Novedad")
    /\ IF esta_resuelta(estado_proceso)
       THEN Rehusa
       ELSE LET nueva_obs == ConNota(observaciones_proceso, Libre(nuevas_observaciones),
                                     Sospechoso(nuevas_observaciones), funcionario_id)
            IN  /\ Anota(nueva_obs)
                /\ fecha_ultima_actualizacion' =
                       IF nueva_obs.ok THEN hoy ELSE fecha_ultima_actualizacion
                /\ UNCHANGED <<estado_proceso, funcionario_actual, campos_novedad,
                               fue_recibida>>
    /\ UNCHANGED <<fuera_del_proceso, entidad>>

\* ------------------------------------------------------ process specification
\* one Traslado, Radicacion or Novedad is built and driven through its commands
NextProcesos ==
    \/ \E t \in TramitesProceso, f \in FuncionariosEntrada, o \in TextosOpcionales :
          Traslado_crear_nuevo(t, f, o)
    \/ \E f \in FuncionariosEntrada : Traslado_marcar_como_revisado(f)
    \/ \E f \in FuncionariosEntrada, o \in TextosOpcionales :
          Traslado_completar_traslado(f, o)
    \/ \E f \in FuncionariosEntrada, d \in TextosProceso : Traslado_reportar_novedad(f, d)
    \/ \E f \in FuncionariosEntrada, d \in TextosProceso : Traslado_resolver_novedad(f, d)
    \/ \E f \in FuncionariosEntrada, m \in TextosProceso, a \in BOOLEAN :
          Traslado_devolver_traslado(f, m, a)
    \/ \E f \in FuncionariosEntrada, o \in TextosProceso :
          Traslado_actualizar_observaciones(f, o)
    \/ \E t \in TramitesProceso, f \in FuncionariosEntrada, o \in TextosOpcionales :
          Radicacion_crear_nueva(t, f, o)
    \/ \E f \in FuncionariosEntrada : Radicacion_marcar_como_recibida(f)
    \/ \E f \in FuncionariosEntrada : Radicacion_marcar_como_revisada(f)
    \/ \E f \in FuncionariosEntrada, o \in TextosOpcionales :
          Radicacion_completar_radicacion(f, o)
    \/ \E f \in FuncionariosEntrada, d \in TextosProceso : Radicacion_reportar_novedad(f, d)
    \/ \E f \in FuncionariosEntrada, d \in TextosProceso : Radicacion_resolver_novedad(f, d)
    \/ \E f \in FuncionariosEntrada, m \in TextosProceso, a \in BOOLEAN :
          Radicacion_devolver_radicacion(f, m, a)
    \/ \E f \in FuncionariosEntrada, o \in TextosProceso :
          Radicacion_actualizar_observaciones(f, o)
    \/ \E p \in PrioridadesEntrada, f \in FuncionariosEntrada, o \in TextosOpcionales :
          Novedad_crear_nueva(p, f, o)
    \/ \E f \in FuncionariosEntrada : Novedad_tomar_en_revision(f)
    \/ \E f \in FuncionariosEntrada, d \in TextosProceso : Novedad_resolver_novedad(f, d)
    \/ \E f \in FuncionariosEntrada, m \in TextosProceso : Novedad_reabrir_novedad(f, m)
    \/ \E f \in FuncionariosEntrada, p \in PrioridadesEntrada, j \in TextosProceso :
          Novedad_cambiar_prioridad(f, p, j)
    \/ \E f \in FuncionariosEntrada, o \in TextosProceso :
          Novedad_actualizar_observaciones(f, o)
    \/ PasaElDia

ProcesosSpec == Init /\ [][NextProcesos]_vars

\* Traslado.get_nivel_urgencia / Radicacion.get_nivel_urgencia
get_nivel_urgencia ==
    /\ entidad \in {"Traslado", "Radicacion"}
    /\ nivel_consultado' = nivel_urgencia(fecha_vencimiento[1], hoy)
    /\ ultimo' = "ok"
    /\ UNCHANGED <<hoy, origen, cuenta_vars, entregados, exitosos, entidad,
                   campos_proceso, campos_novedad, fue_recibida, fecha_vencimiento,
                   respuesta>>

\* a traslado or a radicacion is created for some fecha_tramite and asked for
\* its urgency as the days pass
NextVencimiento ==
    \/ \E t \in TramitesValidos : Traslado_crear_nuevo(t, F1, NoneObs)
    \/ \E t \in TramitesValidos : Radicacion_crear_nueva(t, F1, NoneObs)
    \/ get_nivel_urgencia
    \/ PasaElDia

\* ------------------------------------------------------ persisted entities
\* the observaciones a repository hands back: none, or one note written by F1
ObservacionesPersistidas ==
    {<<>>, crear_con_timestamp(Libre(TextoObs(0, 2, 0, "limpio")), FALSE, F1).valor}
\* the fecha_tramite and fecha_vencimiento a repository hands back
FechasPersistidas == {<<0, PLAZO_DIAS>>, <<0, 0>>}
\* the funcionario_actual and the funcionario_resuelve a repository hands back,
\* None included
ActualesPersistidos == {F1, SinFuncionario}

\* Radicacion.crear_desde_repositorio: the fields are copied as given, only
\* funcionario_recibe is normalised and validated; _fue_recibida is not among
\* them and keeps the default of the class
Radicacion_crear_desde_repositorio(fechas, funcionario_recibe, estado_, observaciones_, funcionario_actual_, fecha_ultima_actualizacion_) ==
    /\ entidad = "ninguna"
    /\ IF strip(funcionario_recibe) # <<>> /\ fechas[2] > fechas[1]
       THEN /\ entidad' = "Radicacion"
            /\ fecha_vencimiento' = <<fechas[2]>>
            /\ estado_proceso' = estado_
            /\ observaciones_proceso' = observaciones_
            /\ funcionario_actual' = funcionario_actual_
            /\ fecha_ultima_actualizacion' = fecha_ultima_actualizacion_
            /\ fue_recibida' = FALSE
            /\ ultimo' = "ok"
       ELSE /\ ultimo' = "error"
            /\ UNCHANGED <<entidad, campos_proceso, fue_recibida, fecha_vencimiento>>
    /\ UNCHANGED <<hoy, origen, cuenta_vars, entregados, exitosos, campos_novedad,
                   nivel_consultado, respuesta>>

\* Traslado.crear_desde_repositorio: the fields are copied as given, only
\* funcionario_envia is normalised and validated
Traslado_crear_desde_repositorio(fechas, funcionario_envia, estado_, observaciones_, funcionario_actual_, fecha_ultima_actualizacion_) ==
    /\ entidad = "ninguna"
    /\ IF strip(funcionario_envia) # <<>> /\ fechas[2] > fechas[1]
       THEN /\ entidad' = "Traslado"
            /\ fecha_vencimiento' = <<fechas[2]>>
            /\ estado_proceso' = estado_
            /\ observaciones_proceso' = observaciones_
            /\ funcionario_actual' = funcionario_actual_
            /\ fecha_ultima_actualizacion' = fecha_ultima_actualizacion_
            /\ ultimo' = "ok"
       ELSE /\ ultimo' = "error"
            /\ UNCHANGED <<entidad, campos_proceso, fecha_vencimiento>>
    /\ UNCHANGED <<hoy, origen, cuenta_vars, entregados, exitosos, campos_novedad,
                   fue_recibida, nivel_consultado, respuesta>>

\* the fecha_resolucion and descripcion_resolucion a repository hands back,
\* None included
FechasResolucionPersistidas == {0, SinFecha}
DescripcionesPersistidas == {TextoObs(0, 2, 0, "limpio"), NoneObs}

\* Novedad.crear_desde_repositorio: the fields are copied as given, only
\* funcionario_reporta is normalised and validated, and the fechas are checked:
\* fecha_reporte not after today, fecha_resolucion not before fecha_reporte
Novedad_crear_desde_repositorio(prioridad_, funcionario_reporta, fecha_reporte_, estado_, observaciones_, funcionario_resuelve_, fecha_resolucion_, descripcion_resolucion_, funcionario_actual_, fecha_ultima_actualizacion_) ==
    /\ entidad = "ninguna"
    /\ IF /\ strip(funcionario_reporta) # <<>>
          /\ fecha_reporte_ <= hoy
          /\ ~(fecha_resolucion_ # SinFecha /\ fecha_resolucion_ < fecha_reporte_)
       THEN /\ entidad' = "Novedad"
            /\ prioridad' = prioridad_
            /\ fecha_reporte' = fecha_reporte_
            /\ estado_proceso' = estado_
            /\ observaciones_proceso' = observaciones_
            /\ funcionario_resuelve' = funcionario_resuelve_
            /\ fecha_resolucion' = fecha_resolucion_
            /\ descripcion_resolucion' = descripcion_resolucion_
            /\ funcionario_actual' = funcionario_actual_
            /\ fecha_ultima_actualizacion' = fecha_ultima_actualizacion_
            /\ ultimo' = "ok"
       ELSE /\ ultimo' = "error"
            /\ UNCHANGED <<entidad, campos_proceso, campos_novedad>>
    /\ UNCHANGED <<hoy, origen, cuenta_vars, entregados, exitosos, fue_recibida,
                   consulta_vars>>

\* a traslado, a radicacion or a novedad is created or read back from the
\* repository, and then worked on
NextPersistencia ==
    \/ NextProcesos
    \/ \E d \in FechasPersistidas, f \in FuncionariosEntrada, e \in EstadoTraslado,
          o \in ObservacionesPersistidas, a \in ActualesPersistidos,
          u \in {SinFecha, 0} :
          Traslado_crear_desde_repositorio(d, f, e, o, a, u)
    \/ \E d \in FechasPersistidas, f \in FuncionariosEntrada, e \in EstadoRadicacion,
          o \in ObservacionesPersistidas, a \in ActualesPersistidos,
          u \in {SinFecha, 0} :
          Radicacion_crear_desde_repositorio(d, f, e, o, a, u)
    \/ \E p \in PrioridadesEntrada, f \in FuncionariosEntrada,
          r \in 0..MaxDia, e \in EstadoNovedad,
          o \in ObservacionesPersistidas, fr \in ActualesPersistidos,
          dr \in FechasResolucionPersistidas, t \in DescripcionesPersistidas,
          a \in ActualesPersistidos, u \in {SinFecha, 0} :
          Novedad_crear_desde_repositorio(p, f, r, e, o, fr, dr, t, a, u)

PersistenciaSpec == Init /\ [][NextPersistencia]_vars

VencimientoSpec == Init /\ [][NextVencimiento]_vars

\* ------------------------------------------------ observaciones near the cap
\* texts a caller may hand in: a short one, and one that with its mark fills
\* observaciones almost to MAX_OBSERVACIONES
TextosAtasco == {TextoObs(0, 2, 0, "limpio"), TextoObs(0, 940, 0, "limpio")}

\* the commands of a Traslado and of a Radicacion, with short and long texts
NextAtasco ==
    \/ \E t \in TramitesProceso, f \in {F1}, o \in TextosOpcionales :
          Traslado_crear_nuevo(t, f, o)
    \/ \E f \in {F1} : Traslado_marcar_como_revisado(f)
    \/ \E f \in {F1}, o \in TextosOpcionales : Traslado_completar_traslado(f, o)
    \/ \E f \in {F1}, d \in TextosAtasco : Traslado_reportar_novedad(f, d)
    \/ \E f \in {F1}, d \in TextosAtasco : Traslado_resolver_novedad(f, d)
    \/ \E f \in {F1}, m \in TextosAtasco, a \in BOOLEAN : Traslado_devolver_traslado(f, m, a)
    \/ \E f \in {F1}, o \in TextosAtasco : Traslado_actualizar_observaciones(f, o)
    \/ \E t \in TramitesProceso, f \in {F1}, o \in TextosOpcionales :
          Radicacion_crear_nueva(t, f, o)
    \/ \E f \in {F1} : Radicacion_marcar_como_recibida(f)
    \/ \E f \in {F1} : Radicacion_marcar_como_revisada(f)
    \/ \E f \in {F1}, o \in TextosOpcionales : Radicacion_completar_radicacion(f, o)
    \/ \E f \in {F1}, d \in TextosAtasco : Radicacion_reportar_novedad(f, d)
    \/ \E f \in {F1}, d \in TextosAtasco : Radicacion_resolver_novedad(f, d)
    \/ \E f \in {F1}, m \in TextosAtasco, a \in BOOLEAN :
          Radicacion_devolver_radicacion(f, m, a)
    \/ \E f \in {F1}, o \in TextosAtasco : Radicacion_actualizar_observaciones(f, o)
    \/ PasaElDia

AtascoSpec == Init /\ [][NextAtasco]_vars

TypeOK ==
    /\ hoy \in 0..MaxDia
    /\ origen \in {"ninguna", "nueva", "repositorio"}
    /\ estado \in EstadoCuenta
    /\ tipo_proceso_anterior \in TipoProcesoAnterior
    /\ proceso_traslado_activo \in BOOLEAN
    /\ proceso_radicacion_activo \in BOOLEAN
    /\ Len(historial_asignaciones) <= MaxHistorial
    /\ exitosos \in 0..MaxHistorial


\* ---------------------------------------------------------- claim vocabulary
Ultima(h) == h[Len(h)]
EsPrefijo(h, g) == Len(h) <= Len(g) /\ SubSeq(g, 1, Len(h)) = h
\* a command returned normally in this step
ComandoExitoso == exitosos' = exitosos + 1
\* the command that returned normally in this step is the one whose audit
\* record carries this fixed motivo part
ExitoDe(base) ==
    /\ ComandoExitoso
    /\ historial_asignaciones' # <<>>
    /\ Ultima(historial_asignaciones').motivo.base = base
\* positions of the records appended since the account was built
Anexadas ==
    (Len(historial_asignaciones) - exitosos + 1)..Len(historial_asignaciones)
BaseEn(i) == historial_asignaciones[i].motivo.base

\* C1: after any sequence of commands, successful or failing, on an account
\* built by either factory, the traslado and radicacion flags are never both
\* set.
C1_NuncaAmbosProcesos ==
    Construida => ~(proceso_traslado_activo /\ proceso_radicacion_activo)

\* a process is active on an account that has seen successful and failing
\* commands
C1_Testigo ==
    /\ Construida
    /\ proceso_traslado_activo
    /\ exitosos >= 1
    /\ ultimo = "error"

\* C2: after any sequence of commands, estado is EN_TRASLADO exactly when the
\* traslado flag is set, EN_RADICACION exactly when the radicacion flag is set,
\* and ACTIVA or INACTIVA exactly when neither flag is set.
C2_EstadoCoherente ==
    Construida =>
        /\ (estado = "EN_TRASLADO") <=> proceso_traslado_activo
        /\ (estado = "EN_RADICACION") <=> proceso_radicacion_activo
        /\ (estado \in {"ACTIVA", "INACTIVA"}) <=>
               (~proceso_traslado_activo /\ ~proceso_radicacion_activo)

\* a radicacion is under way after a failing command
C2_Testigo ==
    /\ Construida
    /\ estado = "EN_RADICACION"
    /\ proceso_radicacion_activo
    /\ ultimo = "error"

\* C3: a command that fails, for whatever reason, leaves estado, both flags,
\* tipo_proceso_anterior, the historial and the event buffer as they were.
C3_FalloSinEfecto ==
    [][(Construida /\ ultimo' = "error") =>
          UNCHANGED <<estado, proceso_traslado_activo, proceso_radicacion_activo,
                      tipo_proceso_anterior, historial_asignaciones, domain_events>>]_vars

\* C4: every command that succeeds appends exactly one audit record and
\* buffers exactly one event, the same official acting twice in a row
\* included; an account made by crear_nueva_cuenta therefore always has
\* 1 + (number of successful commands) records.
C4_UnRegistroPorComando ==
    /\ [](origen = "nueva" => Len(historial_asignaciones) = 1 + exitosos)
    /\ [][ComandoExitoso =>
             /\ Len(historial_asignaciones') = Len(historial_asignaciones) + 1
             /\ EsPrefijo(historial_asignaciones, historial_asignaciones')
             /\ Len(domain_events') = Len(domain_events) + 1
             /\ EsPrefijo(domain_events, domain_events')]_vars

\* two commands in a row succeeded for one and the same official
C4_Testigo ==
    /\ origen = "nueva"
    /\ exitosos >= 2
    /\ Len(historial_asignaciones) = 3
    /\ historial_asignaciones[2].funcionario_id = historial_asignaciones[3].funcionario_id
    /\ historial_asignaciones[1].funcionario_id = historial_asignaciones[2].funcionario_id

\* C5: in every reachable state puede_iniciar_traslado holds iff no process is
\* active, the account is not INACTIVA and tipo_proceso_anterior is not
\* TRASLADO_COMPLETADO; puede_iniciar_radicacion likewise with
\* RADICACION_COMPLETADA.
C5_PuedeIniciar ==
    Construida =>
        /\ puede_iniciar_traslado <=>
               (/\ ~proceso_traslado_activo /\ ~proceso_radicacion_activo
                /\ estado # "INACTIVA"
                /\ tipo_proceso_anterior # "TRASLADO_COMPLETADO")
        /\ puede_iniciar_radicacion <=>
               (/\ ~proceso_traslado_activo /\ ~proceso_radicacion_activo
                /\ estado # "INACTIVA"
                /\ tipo_proceso_anterior # "RADICACION_COMPLETADA")

\* an idle, active account that a completed radicacion bars from radicacion
\* only
C5_Testigo ==
    /\ Construida
    /\ estado = "ACTIVA"
    /\ tipo_proceso_anterior = "RADICACION_COMPLETADA"
    /\ exitosos >= 1
    /\ puede_iniciar_traslado
    /\ ~puede_iniciar_radicacion

\* C6: on one account two successful completar_proceso_traslado calls are
\* always separated by a successful completar_proceso_radicacion or a
\* successful devolver_proceso_*, and symmetrically for radicacion.  Every
\* successful command leaves its record, so the calls are read off the records
\* appended since the account was built.
C6_ExclusividadOrigenDestino ==
    Construida =>
        \A i \in Anexadas, j \in Anexadas :
            (i < j /\ BaseEn(i) = BaseEn(j)
                   /\ BaseEn(i) \in {"completar_traslado", "completar_radicacion"}) =>
                \E k \in (i + 1)..(j - 1) :
                    BaseEn(k) \in ({"completar_traslado", "completar_radicacion",
                                    "devolver_traslado", "devolver_radicacion"}
                                   \ {BaseEn(i)})

\* C7: after every successful devolver_proceso_*, whatever came before the
\* process, the account is ACTIVA with no active process,
\* tipo_proceso_anterior is the matching DEVUELTO value and both processes may
\* be started.
C7_DevolverRestablece ==
    [][/\ ExitoDe("devolver_traslado") =>
            /\ estado' = "ACTIVA"
            /\ ~proceso_traslado_activo' /\ ~proceso_radicacion_activo'
            /\ tipo_proceso_anterior' = "TRASLADO_DEVUELTO"
            /\ puede_iniciar_traslado' /\ puede_iniciar_radicacion'
       /\ ExitoDe("devolver_radicacion") =>
            /\ estado' = "ACTIVA"
            /\ ~proceso_traslado_activo' /\ ~proceso_radicacion_activo'
            /\ tipo_proceso_anterior' = "RADICACION_DEVUELTA"
            /\ puede_iniciar_traslado' /\ puede_iniciar_radicacion']_vars

\* a radicacion was returned on an account whose traslado had been completed
C7_Testigo ==
    /\ Construida
    /\ ultimo = "ok"
    /\ Len(historial_asignaciones) >= 2
    /\ BaseEn(Len(historial_asignaciones)) = "devolver_radicacion"
    /\ Len(historial_asignaciones) \in Anexadas
    /\ \E i \in 1..(Len(historial_asignaciones) - 1) : BaseEn(i) = "completar_traslado"
    /\ tipo_proceso_anterior = "RADICACION_DEVUELTA"
    /\ estado = "ACTIVA"

\* C8: a successful completar_proceso_traslado (resp. radicacion) clears the
\* flag, returns estado to ACTIVA, sets tipo_proceso_anterior to
\* TRASLADO_COMPLETADO (resp. RADICACION_COMPLETADA), appends one
\* COMPLETAR_PROCESO record and emits an event with resultado "completado";
\* create, iniciar_proceso_traslado, completar_proceso_traslado gives a
\* historial of 3, traslado barred and radicacion allowed.
C8_CompletarProceso ==
    [][/\ ExitoDe("completar_traslado") =>
            /\ ~proceso_traslado_activo' /\ ~proceso_radicacion_activo'
            /\ estado' = "ACTIVA"
            /\ tipo_proceso_anterior' = "TRASLADO_COMPLETADO"
            /\ Len(historial_asignaciones') = Len(historial_asignaciones) + 1
            /\ Ultima(historial_asignaciones').tipo_asignacion = "COMPLETAR_PROCESO"
            /\ Len(domain_events') = Len(domain_events) + 1
            /\ Ultima(domain_events').evento = "ProcesoCompletado"
            /\ Ultima(domain_events').tipo_proceso = "traslado"
            /\ Ultima(domain_events').resultado = "completado"
            /\ ~puede_iniciar_traslado' /\ puede_iniciar_radicacion'
            /\ (/\ origen = "nueva"
                /\ Len(historial_asignaciones) = 2
                /\ BaseEn(2) = "inicio_traslado") =>
                   Len(historial_asignaciones') = 3
       /\ ExitoDe("completar_radicacion") =>
            /\ ~proceso_traslado_activo' /\ ~proceso_radicacion_activo'
            /\ estado' = "ACTIVA"
            /\ tipo_proceso_anterior' = "RADICACION_COMPLETADA"
            /\ Len(historial_asignaciones') = Len(historial_asignaciones) + 1
            /\ Ultima(historial_asignaciones').tipo_asignacion = "COMPLETAR_PROCESO"
            /\ Len(domain_events') = Len(domain_events) + 1
            /\ Ultima(domain_events').evento = "ProcesoCompletado"
            /\ Ultima(domain_events').tipo_proceso = "radicacion"
            /\ Ultima(domain_events').resultado = "completado"
            /\ puede_iniciar_traslado' /\ ~puede_iniciar_radicacion']_vars

\* create, iniciar_proceso_traslado, completar_proceso_traslado has just run
C8_Testigo ==
    /\ origen = "nueva"
    /\ ultimo = "ok"
    /\ Len(historial_asignaciones) = 3
    /\ BaseEn(2) = "inicio_traslado"
    /\ BaseEn(3) = "completar_traslado"
    /\ historial_asignaciones[3].tipo_asignacion = "COMPLETAR_PROCESO"
    /\ tipo_proceso_anterior = "TRASLADO_COMPLETADO"
    /\ domain_events # <<>>
    /\ Ultima(domain_events).resultado = "completado"

\* C9: the historial is append-only: across every command, successful or
\* failing, the historial before the call is a prefix of the historial after.
C9_SoloAnexar ==
    [][Construida => EsPrefijo(historial_asignaciones, historial_asignaciones')]_vars

\* a command has succeeded and a later one failed
C9_Testigo ==
    /\ Construida
    /\ exitosos >= 1
    /\ Len(historial_asignaciones) >= 2
    /\ ultimo = "error"

\* C10: on every account, created or rebuilt, the fecha_asignacion values of
\* consecutive historial records never decrease.
C10_FechasNoDecrecen ==
    Construida =>
        \A i \in 2..Len(historial_asignaciones) :
            historial_asignaciones[i].fecha_asignacion >=
                historial_asignaciones[i - 1].fecha_asignacion

\* estado and the two flags agree, as section 2 of the specification words it
Coherente(e, t, r) ==
    /\ (e = "EN_TRASLADO") <=> t
    /\ (e = "EN_RADICACION") <=> r
    /\ (e \in {"ACTIVA", "INACTIVA"}) <=> (~t /\ ~r)

\* C11: crear_desde_repositorio is a round trip: for every coherent
\* combination of historial, estado, flags and tipo_proceso_anterior (and a
\* non-blank creator) the account is built and holds exactly the values
\* passed: the same estado, flags and tipo_proceso_anterior and the same
\* historial, record for record, nothing added, dropped or reordered.
C11_IdaYVuelta ==
    [][origen = "ninguna" =>
         \A e \in EstadoCuenta, c \in CreadoresEntrada, h \in HistorialesPersistidos,
            tpa \in TipoProcesoAnterior, t \in BOOLEAN, r \in BOOLEAN :
            (/\ strip(c) # <<>>
             /\ Coherente(e, t, r)
             /\ crear_desde_repositorio(e, c, h, tpa, t, r)) =>
                /\ origen' = "repositorio"
                /\ ultimo' = "ok"
                /\ estado' = e
                /\ proceso_traslado_activo' = t
                /\ proceso_radicacion_activo' = r
                /\ tipo_proceso_anterior' = tpa
                /\ historial_asignaciones' = h
                /\ Len(historial_asignaciones') = Len(h)
                /\ \A i \in 1..Len(h) : historial_asignaciones'[i] = h[i]]_vars

\* an account rebuilt in the middle of a radicacion that followed a completed
\* traslado, its two persisted records in the order they were passed, the
\* later date first
C11_Testigo ==
    /\ origen = "repositorio"
    /\ exitosos = 0
    /\ estado = "EN_RADICACION"
    /\ proceso_radicacion_activo
    /\ tipo_proceso_anterior = "TRASLADO_COMPLETADO"
    /\ Len(historial_asignaciones) = 2
    /\ historial_asignaciones[1].fecha_asignacion >
           historial_asignaciones[2].fecha_asignacion

\* C12: both construction paths check coherence: crear_desde_repositorio
\* rejects, leaving no account, every combination in which estado and the
\* flags disagree (EN_TRASLADO without the traslado flag, EN_RADICACION
\* without the radicacion flag, both flags set, ACTIVA or INACTIVA with a flag
\* set), and the account either factory returns is coherent.
C12_RechazaIncoherentes ==
    [][origen = "ninguna" =>
         /\ \A e \in EstadoCuenta, c \in CreadoresEntrada, h \in HistorialesPersistidos,
               tpa \in TipoProcesoAnterior, t \in BOOLEAN, r \in BOOLEAN :
               (/\ ~Coherente(e, t, r)
                /\ crear_desde_repositorio(e, c, h, tpa, t, r)) =>
                   /\ origen' = "ninguna"
                   /\ ultimo' = "error"
                   /\ UNCHANGED cuenta_vars
         /\ origen' # "ninguna" =>
               Coherente(estado', proceso_traslado_activo', proceso_radicacion_activo')]_vars

\* a construction was refused on the second day and no account exists
C12_Testigo ==
    /\ origen = "ninguna"
    /\ ultimo = "error"
    /\ hoy = 1
    /\ historial_asignaciones = <<>>

\* C13: crear_nueva_cuenta yields an ACTIVA account with no process, exactly
\* one historial record, of type CREACION and for the creator, exactly one
\* buffered event, CuentaCreada, and both puede_iniciar_* true;
\* crear_desde_repositorio never seeds a record and never buffers an event.
C13_CuentaNueva ==
    [][origen = "ninguna" =>
         /\ \A c \in CreadoresEntrada :
               (crear_nueva_cuenta(c) /\ origen' = "nueva") =>
                   /\ estado' = "ACTIVA"
                   /\ ~proceso_traslado_activo' /\ ~proceso_radicacion_activo'
                   /\ Len(historial_asignaciones') = 1
                   /\ historial_asignaciones'[1].tipo_asignacion = "CREACION"
                   /\ historial_asignaciones'[1].funcionario_id = strip(upper(c))
                   /\ funcionario_creador' = strip(upper(c))
                   /\ Len(domain_events') = 1
                   /\ domain_events'[1].evento = "CuentaCreada"
                   /\ puede_iniciar_traslado' /\ puede_iniciar_radicacion'
         /\ \A e \in EstadoCuenta, c \in CreadoresEntrada, h \in HistorialesPersistidos,
               tpa \in TipoProcesoAnterior, t \in BOOLEAN, r \in BOOLEAN :
               (origen' = "repositorio" /\ crear_desde_repositorio(e, c, h, tpa, t, r)) =>
                   /\ Len(historial_asignaciones') = Len(h)
                   /\ domain_events' = <<>>]_vars

\* a freshly created account: one record, one event, nothing else done
C13_Testigo ==
    /\ origen = "nueva"
    /\ exitosos = 0
    /\ Len(historial_asignaciones) = 1
    /\ historial_asignaciones[1].tipo_asignacion = "CREACION"
    /\ Len(domain_events) = 1
    /\ entregados = <<>>

\* C14: draining is read-once: get_domain_events returns the events buffered
\* since the previous drain, in emission order, and empties the buffer, so a
\* call made right after returns nothing; between drains the buffer only
\* grows at its end, so no event is returned twice and none is lost.
C14_DrenajeUnaVez ==
    [][Construida =>
         /\ get_domain_events =>
               /\ entregados' = entregados \o domain_events
               /\ domain_events' = <<>>
               /\ (domain_events = <<>> => entregados' = entregados)
         /\ ~get_domain_events =>
               /\ entregados' = entregados
               /\ EsPrefijo(domain_events, domain_events')
         /\ EsPrefijo(entregados \o domain_events, entregados' \o domain_events')
         /\ Len(entregados' \o domain_events') =
               Len(entregados \o domain_events) +
               (IF ComandoExitoso THEN 1 ELSE 0)]_vars

\* events were drained, then a command buffered a new one
C14_Testigo ==
    /\ Construida
    /\ Len(entregados) >= 1
    /\ Len(domain_events) >= 1
    /\ exitosos >= 1

\* the command of this step was refused and changed nothing of the account
Rechazado ==
    /\ ultimo' = "error"
    /\ ~ComandoExitoso
    /\ UNCHANGED <<estado, proceso_traslado_activo, proceso_radicacion_activo,
                   tipo_proceso_anterior, historial_asignaciones, domain_events>>

\* C15: a command whose state precondition fails is rejected with no effect:
\* iniciar_proceso_* when a process is active, the account is INACTIVA or the
\* previous process forbids it, completar_proceso_* and devolver_proceso_*
\* without their active process, inactivar_cuenta with an active process and
\* reactivar_cuenta when the account is not INACTIVA raise and leave the
\* historial, the flags and estado as they were.  Stated contrapositively: a
\* step that is not such a refusal is not a step of a command whose
\* precondition failed.
C15_PrecondicionSinEfecto ==
    [][(Construida /\ ~Rechazado) =>
         /\ (\/ proceso_traslado_activo \/ proceso_radicacion_activo
             \/ estado = "INACTIVA"
             \/ tipo_proceso_anterior = "TRASLADO_COMPLETADO") =>
               \A f \in FuncionariosEntrada : ~iniciar_proceso_traslado(f)
         /\ (\/ proceso_traslado_activo \/ proceso_radicacion_activo
             \/ estado = "INACTIVA"
             \/ tipo_proceso_anterior = "RADICACION_COMPLETADA") =>
               \A f \in FuncionariosEntrada : ~iniciar_proceso_radicacion(f)
         /\ ~proceso_traslado_activo =>
               \A f \in FuncionariosEntrada, m \in TextosEntrada :
                  ~completar_proceso_traslado(f) /\ ~devolver_proceso_traslado(f, m)
         /\ ~proceso_radicacion_activo =>
               \A f \in FuncionariosEntrada, m \in TextosEntrada :
                  ~completar_proceso_radicacion(f) /\ ~devolver_proceso_radicacion(f, m)
         /\ (proceso_traslado_activo \/ proceso_radicacion_activo) =>
               \A f \in FuncionariosEntrada, m \in TextosEntrada : ~inactivar_cuenta(f, m)
         /\ estado # "INACTIVA" =>
               \A f \in FuncionariosEntrada : ~reactivar_cuenta(f)]_vars

\* a command was refused on an account that had been inactivated
C15_Testigo ==
    /\ Construida
    /\ estado = "INACTIVA"
    /\ ultimo = "error"
    /\ exitosos >= 1
    /\ Ultima(historial_asignaciones).motivo.base = "inactivar"
    /\ Len(historial_asignaciones) < MaxHistorial

\* C16: the motivo given to devolver_proceso_traslado or
\* devolver_proceso_radicacion is bounded to 500 characters: with the process
\* active and a valid funcionario, every motivo of at most 500 characters is
\* accepted and persisted in the observations of the appended record, and
\* every longer motivo makes the call fail.
C16_MotivoAcotado ==
    [][Construida =>
         \A f \in FuncionariosEntrada, m \in MotivosLimite :
            /\ (/\ proceso_traslado_activo
                /\ strip(f) # <<>>
                /\ devolver_proceso_traslado(f, m)) =>
                   IF Longitud(m) <= MAX_MOTIVO
                   THEN /\ ComandoExitoso
                        /\ Ultima(historial_asignaciones').observaciones = m
                   ELSE ultimo' = "error" /\ ~ComandoExitoso
            /\ (/\ proceso_radicacion_activo
                /\ strip(f) # <<>>
                /\ devolver_proceso_radicacion(f, m)) =>
                   IF Longitud(m) <= MAX_MOTIVO
                   THEN /\ ComandoExitoso
                        /\ Ultima(historial_asignaciones').observaciones = m
                   ELSE ultimo' = "error" /\ ~ComandoExitoso]_vars

\* puede_iniciar_traslado / puede_iniciar_radicacion on given values of
\* estado, tipo_proceso_anterior and the flags, as section 4.1 of the
\* specification words them
PuedeTrasladoCon(e, tpa, t, r) ==
    ~t /\ ~r /\ e # "INACTIVA" /\ tpa # "TRASLADO_COMPLETADO"
PuedeRadicacionCon(e, tpa, t, r) ==
    ~t /\ ~r /\ e # "INACTIVA" /\ tpa # "RADICACION_COMPLETADA"

\* the step leaves tipo_proceso_anterior, both flags and the creator alone
MarcoInactivacion ==
    UNCHANGED <<tipo_proceso_anterior, proceso_traslado_activo,
                proceso_radicacion_activo, funcionario_creador>>

\* the queries before this step answer what they will answer once
\* reactivar_cuenta has succeeded on the state this step leaves
ComoTrasReactivar ==
    /\ puede_iniciar_traslado <=>
          PuedeTrasladoCon("ACTIVA", tipo_proceso_anterior',
                           proceso_traslado_activo', proceso_radicacion_activo')
    /\ puede_iniciar_radicacion <=>
          PuedeRadicacionCon("ACTIVA", tipo_proceso_anterior',
                             proceso_traslado_activo', proceso_radicacion_activo')

\* what a reactivar_cuenta step does: it keeps the frame and, when it
\* succeeds, leaves the account ACTIVA with the queries decided by the
\* tipo_proceso_anterior and the flags it found
EfectoReactivar ==
    /\ MarcoInactivacion
    /\ ComandoExitoso =>
          /\ estado' = "ACTIVA"
          /\ puede_iniciar_traslado' <=>
                PuedeTrasladoCon("ACTIVA", tipo_proceso_anterior,
                                 proceso_traslado_activo, proceso_radicacion_activo)
          /\ puede_iniciar_radicacion' <=>
                PuedeRadicacionCon("ACTIVA", tipo_proceso_anterior,
                                   proceso_traslado_activo, proceso_radicacion_activo)

\* C17 as claimed: inactivar_cuenta and reactivar_cuenta change only estado
\* (to INACTIVA, to ACTIVA), the historial and the event buffer, keeping
\* tipo_proceso_anterior and both flags, so that after every successful
\* inactivar_cuenta followed by reactivar_cuenta the two puede_iniciar_*
\* queries answer as they did before the inactivation.
C17_InactivarReactivar ==
    [][Construida =>
         /\ ~(/\ MarcoInactivacion
              /\ ComandoExitoso => (estado' = "INACTIVA" /\ ComoTrasReactivar)) =>
               \A f \in FuncionariosEntrada, m \in TextosEntrada : ~inactivar_cuenta(f, m)
         /\ ~EfectoReactivar =>
               \A f \in FuncionariosEntrada : ~reactivar_cuenta(f)]_vars

\* C17 amended: the same frame, and the queries answer after inactivar_cuenta
\* followed by reactivar_cuenta as they did before the inactivation whenever
\* the account was ACTIVA before it; inactivar_cuenta is also accepted on an
\* account that is already INACTIVA, whose queries both answered false.
C17_InactivarReactivarDesdeActiva ==
    [][Construida =>
         /\ ~(/\ MarcoInactivacion
              /\ ComandoExitoso =>
                    /\ estado' = "INACTIVA"
                    /\ estado = "ACTIVA" => ComoTrasReactivar
                    /\ estado = "INACTIVA" =>
                          (~puede_iniciar_traslado /\ ~puede_iniciar_radicacion)) =>
               \A f \in FuncionariosEntrada, m \in TextosEntrada : ~inactivar_cuenta(f, m)
         /\ ~EfectoReactivar =>
               \A f \in FuncionariosEntrada : ~reactivar_cuenta(f)]_vars

\* an account whose traslado was completed has been inactivated and then
\* reactivated: traslado is still barred, radicacion still allowed
C17_Testigo ==
    /\ Construida
    /\ ultimo = "ok"
    /\ Len(historial_asignaciones) >= 3
    /\ Len(historial_asignaciones) - 1 \in Anexadas
    /\ BaseEn(Len(historial_asignaciones) - 1) = "inactivar"
    /\ BaseEn(Len(historial_asignaciones)) = "reactivar"
    /\ estado = "ACTIVA"
    /\ tipo_proceso_anterior = "TRASLADO_COMPLETADO"
    /\ ~puede_iniciar_traslado
    /\ puede_iniciar_radicacion

\* C18: reactivar_cuenta, given a valid funcionario, succeeds exactly when
\* estado is INACTIVA, and it is the only command that takes an account out
\* of INACTIVA: while the account is INACTIVA every iniciar_proceso_*,
\* completar_proceso_* and devolver_proceso_* call fails.
C18_SoloReactivarSaca ==
    [][Construida =>
         /\ ~(ComandoExitoso <=> estado = "INACTIVA") =>
               \A f \in FuncionariosEntrada :
                  strip(f) # <<>> => ~reactivar_cuenta(f)
         /\ (estado = "INACTIVA" /\ ~Rechazado) =>
               \A f \in FuncionariosEntrada, m \in TextosEntrada :
                  /\ ~iniciar_proceso_traslado(f)
                  /\ ~iniciar_proceso_radicacion(f)
                  /\ ~completar_proceso_traslado(f)
                  /\ ~completar_proceso_radicacion(f)
                  /\ ~devolver_proceso_traslado(f, m)
                  /\ ~devolver_proceso_radicacion(f, m)
         /\ (estado = "INACTIVA" /\ estado' # "INACTIVA") =>
               \E f \in FuncionariosEntrada : reactivar_cuenta(f)]_vars

\* a new account was inactivated and then reactivated
C18_Testigo ==
    /\ origen = "nueva"
    /\ ultimo = "ok"
    /\ exitosos = 2
    /\ Len(historial_asignaciones) = 3
    /\ BaseEn(2) = "inactivar"
    /\ BaseEn(3) = "reactivar"
    /\ historial_asignaciones[3].tipo_asignacion = "REACTIVACION"
    /\ estado = "ACTIVA"

\* the inputs with which HistorialAsignacion accepts a reassignment
ReasignacionValida(f, s, m, o) ==
    /\ strip(f) # <<>>
    /\ ~m.nulo /\ m.nucleo > 0 /\ m.nucleo <= MAX_MOTIVO
    /\ o.nulo \/ o.nucleo <= MAX_OBSERVACIONES

\* C19: reasignar_funcionario never changes estado, the flags or
\* tipo_proceso_anterior, and it is accepted while a process is active; the
\* process started before the reassignment can be completed or returned
\* afterwards by the new official.  Stated contrapositively: a step that
\* touches the process state is no reassignment, a step that is not the
\* success of a valid reassignment made during a process is no such call, and
\* a step without success is no completar/devolver by the newly assigned
\* official.
C19_ReasignarNoCambiaProceso ==
    [][Construida =>
         /\ ~UNCHANGED <<estado, proceso_traslado_activo,
                         proceso_radicacion_activo, tipo_proceso_anterior>> =>
               \A f \in FuncionariosEntrada, s \in AutorizaEntrada,
                  m \in TextosEntrada, o \in ObservacionesEntrada :
                  ~reasignar_funcionario(f, s, m, o)
         /\ (proceso_traslado_activo \/ proceso_radicacion_activo) =>
               \A f \in FuncionariosEntrada, s \in AutorizaEntrada,
                  m \in TextosEntrada, o \in ObservacionesEntrada :
                  (/\ ReasignacionValida(f, s, m, o)
                   /\ strip(upper(f)) # get_funcionario_actual
                   /\ ~(ComandoExitoso /\ get_funcionario_actual' = strip(upper(f)))) =>
                      ~reasignar_funcionario(f, s, m, o)
         /\ (/\ ~ComandoExitoso
             /\ Len(historial_asignaciones) \in Anexadas
             /\ Ultima(historial_asignaciones).tipo_asignacion = "REASIGNACION") =>
               \A f \in FuncionariosEntrada, m \in TextosEntrada :
                  (/\ strip(f) # <<>>
                   /\ strip(upper(f)) = get_funcionario_actual
                   /\ m.nucleo <= 2) =>
                      /\ proceso_traslado_activo =>
                            (~completar_proceso_traslado(f) /\ ~devolver_proceso_traslado(f, m))
                      /\ proceso_radicacion_activo =>
                            (~completar_proceso_radicacion(f)
                             /\ ~devolver_proceso_radicacion(f, m))]_vars

\* a traslado under way was reassigned to another official, who completed it
C19_Testigo ==
    /\ Construida
    /\ exitosos >= 2
    /\ Len(historial_asignaciones) = 3
    /\ historial_asignaciones[2].tipo_asignacion = "REASIGNACION"
    /\ historial_asignaciones[2].funcionario_id # historial_asignaciones[1].funcionario_id
    /\ BaseEn(3) = "completar_traslado"
    /\ historial_asignaciones[3].funcionario_id = historial_asignaciones[2].funcionario_id
    /\ estado = "ACTIVA"
    /\ tipo_proceso_anterior = "TRASLADO_COMPLETADO"

\* C20: reasignar_funcionario fails whenever the new official equals
\* get_funcionario_actual() once both are normalised (trim + upper case), so
\* every successful reassignment changes get_funcionario_actual().
C20_ReasignarCompara ==
    [][Construida =>
         \A f \in FuncionariosEntrada, s \in AutorizaEntrada,
            m \in TextosEntrada, o \in ObservacionesEntrada :
            reasignar_funcionario(f, s, m, o) =>
               /\ strip(upper(f)) = get_funcionario_actual => Rechazado
               /\ ComandoExitoso => get_funcionario_actual' # get_funcionario_actual]_vars

\* ------------------------------------------------- claims on the processes
\* the command of this step returned normally / raised
ProcesoExitoso == ultimo' = "ok"
ProcesoRechazado == ultimo' = "error"
\* w occurs in v as one contiguous run of parts
Contiene(v, w) ==
    \E i \in 1..(Len(v) - Len(w) + 1) : SubSeq(v, i, i + Len(w) - 1) = w
\* some part of v carries the wording e
TieneRotulo(v, e) == \E i \in 1..Len(v) : v[i].k = "texto" /\ v[i].e = e

\* the transitions the state machine of a Traslado lists
AristasTraslado ==
    {<<"ENVIADO_ORGANISMO_DESTINO", "REVISADO">>, <<"REVISADO", "TRASLADADO">>,
     <<"REVISADO", "CON_NOVEDADES">>, <<"CON_NOVEDADES", "REVISADO">>}
TerminalesTraslado == {"TRASLADADO", "DEVUELTO"}

\* C21: Traslado.estado changes only along ENVIADO_ORGANISMO_DESTINO ->
\* REVISADO, REVISADO -> TRASLADADO, REVISADO -> CON_NOVEDADES, CON_NOVEDADES
\* -> REVISADO, or to DEVUELTO through devolver_traslado with es_admin = True
\* from a state that is not terminal; TRASLADADO and DEVUELTO never change.
C21_TrasladoTransiciones ==
    [][(entidad = "Traslado" /\ estado_proceso' # estado_proceso) =>
          /\ estado_proceso \notin TerminalesTraslado
          /\ \/ <<estado_proceso, estado_proceso'>> \in AristasTraslado
             \/ /\ estado_proceso' = "DEVUELTO"
                /\ \E f \in FuncionariosEntrada, m \in TextosProceso :
                      Traslado_devolver_traslado(f, m, TRUE)]_vars

\* a traslado went through a reported novelty and an administrator returned it
C21_Testigo ==
    /\ entidad = "Traslado"
    /\ estado_proceso = "DEVUELTO"
    /\ ultimo = "ok"
    /\ TieneRotulo(observaciones_proceso, <<"NOVEDAD REPORTADA">>)
    /\ TieneRotulo(observaciones_proceso, <<"TRASLADO DEVUELTO">>)

\* the transitions the state machine of a Radicacion lists
AristasRadicacion ==
    {<<"PENDIENTE_RADICAR", "RECIBIDO">>, <<"RECIBIDO", "REVISADO">>,
     <<"REVISADO", "RADICADO">>, <<"REVISADO", "CON_NOVEDADES">>,
     <<"CON_NOVEDADES", "REVISADO">>}
TerminalesRadicacion == {"RADICADO", "DEVUELTO"}

\* C22: Radicacion.estado changes only along PENDIENTE_RADICAR -> RECIBIDO,
\* RECIBIDO -> REVISADO, REVISADO -> RADICADO, REVISADO -> CON_NOVEDADES,
\* CON_NOVEDADES -> REVISADO, or to DEVUELTO through devolver_radicacion with
\* es_admin = True from a state that is not terminal; RADICADO and DEVUELTO
\* never change.
C22_RadicacionTransiciones ==
    [][(entidad = "Radicacion" /\ estado_proceso' # estado_proceso) =>
          /\ estado_proceso \notin TerminalesRadicacion
          /\ \/ <<estado_proceso, estado_proceso'>> \in AristasRadicacion
             \/ /\ estado_proceso' = "DEVUELTO"
                /\ \E f \in FuncionariosEntrada, m \in TextosProceso :
                      Radicacion_devolver_radicacion(f, m, TRUE)]_vars

\* a radicacion was received, reviewed and completed with final remarks
C22_Testigo ==
    /\ entidad = "Radicacion"
    /\ estado_proceso = "RADICADO"
    /\ fue_recibida
    /\ ultimo = "ok"
    /\ TieneRotulo(observaciones_proceso, <<"COMPLETADA">>)

\* an identifier and a motive no validation objects to
FuncionarioBienFormado(f) == strip(f) # <<>>
TextoBienFormado(t) == ~t.nulo /\ t.nucleo = 2 /\ t.clase = "limpio"

\* C23: devolver_traslado / devolver_radicacion with es_admin = True succeeds
\* from every state that is not terminal, whatever commands led there, and
\* leaves estado = DEVUELTO; with es_admin = False it fails from every state
\* that is not terminal.
C23_DevolucionAdmin ==
    [][\A f \in FuncionariosEntrada, m \in TextosProceso, a \in BOOLEAN :
          (/\ FuncionarioBienFormado(f) /\ TextoBienFormado(m)
           /\ \/ /\ entidad = "Traslado"
                 /\ estado_proceso \notin TerminalesTraslado
                 /\ Traslado_devolver_traslado(f, m, a)
              \/ /\ entidad = "Radicacion"
                 /\ estado_proceso \notin TerminalesRadicacion
                 /\ Radicacion_devolver_radicacion(f, m, a))
          => IF a
             THEN ProcesoExitoso /\ estado_proceso' = "DEVUELTO"
             ELSE ProcesoRechazado]_vars

\* the step is one of the transition commands of a Traslado or Radicacion,
\* issued by f
TransicionDe(f) ==
    \/ Traslado_marcar_como_revisado(f)
    \/ Radicacion_marcar_como_recibida(f)
    \/ Radicacion_marcar_como_revisada(f)
    \/ \E o \in TextosOpcionales :
          Traslado_completar_traslado(f, o) \/ Radicacion_completar_radicacion(f, o)
    \/ \E d \in TextosProceso :
          \/ Traslado_reportar_novedad(f, d) \/ Radicacion_reportar_novedad(f, d)
          \/ Traslado_resolver_novedad(f, d) \/ Radicacion_resolver_novedad(f, d)
          \/ \E a \in BOOLEAN :
                Traslado_devolver_traslado(f, d, a) \/ Radicacion_devolver_radicacion(f, d, a)

\* C24: every successful transition command of a Traslado or Radicacion
\* (marcar_como_recibida, marcar_como_revisado/a, completar_*,
\* reportar_novedad, resolver_novedad, devolver_*) appends a new entry to
\* observaciones that keeps the earlier content, sets funcionario_actual to the
\* acting official and fecha_ultima_actualizacion to today.
C24_TransicionAnota ==
    [][(entidad \in {"Traslado", "Radicacion"} /\ ProcesoExitoso) =>
          \A f \in FuncionariosEntrada :
             TransicionDe(f) =>
                /\ NumeroDeNotas(observaciones_proceso') > NumeroDeNotas(observaciones_proceso)
                /\ Contiene(observaciones_proceso', observaciones_proceso)
                /\ funcionario_actual' = upper(strip(f))
                /\ fecha_ultima_actualizacion' = hoy]_vars

\* C25: once a Traslado or Radicacion is terminal (TRASLADADO, RADICADO,
\* DEVUELTO) it is immutable: every command, actualizar_observaciones and
\* the administrator's devolution included, is rejected, and estado,
\* observaciones, funcionario_actual and fecha_ultima_actualizacion never
\* change.
C25_TerminalInmutable ==
    [][(\/ entidad = "Traslado" /\ estado_proceso \in TerminalesTraslado
        \/ entidad = "Radicacion" /\ estado_proceso \in TerminalesRadicacion) =>
          /\ UNCHANGED campos_proceso
          /\ hoy' = hoy => ProcesoRechazado]_vars

\* a traslado completed without final remarks by a named official, on which a
\* later command was rejected (completing it cannot raise with these values)
C25_Testigo ==
    /\ entidad = "Traslado"
    /\ estado_proceso = "TRASLADADO"
    /\ observaciones_proceso = <<>>
    /\ funcionario_actual # <<>>
    /\ ultimo = "error"

\* C26: every failing command of a Traslado, Radicacion or Novedad (state
\* guard, or an observation text that is rejected: blank funcionario, merged
\* observaciones over 1000 characters, disallowed content) leaves estado,
\* observaciones, funcionario_actual, fecha_ultima_actualizacion, prioridad
\* and the resolution fields unchanged.
C26_FallaSinEfecto ==
    [][(entidad # "ninguna" /\ hoy' = hoy /\ ProcesoRechazado) =>
          UNCHANGED <<campos_proceso, campos_novedad>>]_vars

\* the transitions the state machine of a Novedad lists
AristasNovedad ==
    {<<"PENDIENTE", "EN_REVISION">>, <<"PENDIENTE", "RESUELTA">>,
     <<"EN_REVISION", "RESUELTA">>, <<"EN_REVISION", "PENDIENTE">>,
     <<"RESUELTA", "REABIERTA">>, <<"REABIERTA", "EN_REVISION">>,
     <<"REABIERTA", "RESUELTA">>}

\* C27: Novedad.estado changes only along PENDIENTE -> EN_REVISION, PENDIENTE
\* -> RESUELTA, EN_REVISION -> RESUELTA, EN_REVISION -> PENDIENTE, RESUELTA ->
\* REABIERTA, REABIERTA -> EN_REVISION, REABIERTA -> RESUELTA; a RESUELTA
\* novedad is left only through reabrir_novedad, every other command leaves
\* it RESUELTA.
C27_NovedadTransiciones ==
    [][(entidad = "Novedad" /\ estado_proceso' # estado_proceso) =>
          /\ <<estado_proceso, estado_proceso'>> \in AristasNovedad
          /\ estado_proceso = "RESUELTA" =>
                \E f \in FuncionariosEntrada, m \in TextosProceso :
                   Novedad_reabrir_novedad(f, m)]_vars

\* a novedad was resolved, reopened and resolved again
C27_Testigo ==
    /\ entidad = "Novedad"
    /\ estado_proceso = "RESUELTA"
    /\ TieneRotulo(observaciones_proceso, <<"NOVEDAD REABIERTA">>)

\* C28: every transition of the Novedad state machine can be taken through the
\* entity's commands; in particular a Novedad that is EN_REVISION can be
\* returned to PENDIENTE.
C28_TransicionesAlcanzables ==
    (entidad = "Novedad" /\ EmiteComando("Novedad")) =>
        \A a \in AristasNovedad :
            estado_proceso = a[1] =>
                ENABLED (NextProcesos /\ estado_proceso' = a[2])

\* C29: reabrir_novedad succeeds only from RESUELTA and leaves estado
\* REABIERTA with funcionario_resuelve, fecha_resolucion and
\* descripcion_resolucion cleared, while the text of the previous resolution is
\* still contained in observaciones.
C29_ReabrirConserva ==
    [][(entidad = "Novedad" /\ ProcesoExitoso) =>
          \A f \in FuncionariosEntrada, m \in TextosProceso :
             Novedad_reabrir_novedad(f, m) =>
                /\ estado_proceso = "RESUELTA"
                /\ estado_proceso' = "REABIERTA"
                /\ funcionario_resuelve' = SinFuncionario
                /\ fecha_resolucion' = SinFecha
                /\ descripcion_resolucion' = NoneObs
                /\ \E i \in 1..Len(observaciones_proceso') :
                      observaciones_proceso'[i] =
                          Rotulado(<<"NOVEDAD RESUELTA">>, descripcion_resolucion)]_vars

\* an empty or blank text, None included
VacioOBlanco(t) == t.nulo \/ t.nucleo = 0

\* C30: while a Novedad is RESUELTA, cambiar_prioridad and
\* actualizar_observaciones are rejected; in any state cambiar_prioridad is
\* rejected when the target equals the current priority or the justification
\* is blank, and resolver_novedad is rejected when the resolution description
\* is empty or blank.
C30_RechazosNovedad ==
    [][(entidad = "Novedad" /\ ~ProcesoRechazado) =>
          \A f \in FuncionariosEntrada, t \in TextosProceso :
             /\ \A p \in PrioridadesEntrada :
                   (estado_proceso = "RESUELTA" \/ p = prioridad \/ VacioOBlanco(t))
                      => ~Novedad_cambiar_prioridad(f, p, t)
             /\ estado_proceso = "RESUELTA" => ~Novedad_actualizar_observaciones(f, t)
             /\ VacioOBlanco(t) => ~Novedad_resolver_novedad(f, t)]_vars

\* a novedad resolved by a named official with a short description, its note
\* written, on which a later command was rejected
C30_Testigo ==
    /\ entidad = "Novedad"
    /\ estado_proceso = "RESUELTA"
    /\ ultimo = "error"
    /\ funcionario_resuelve \notin {<<>>, SinFuncionario}
    /\ descripcion_resolucion = TextoObs(0, 2, 0, "limpio")
    /\ NumeroDeNotas(observaciones_proceso) = 1
    /\ TieneRotulo(observaciones_proceso, <<"NOVEDAD RESUELTA">>)

\* C31: with dias_restantes = fecha_vencimiento - today, get_nivel_urgencia()
\* of a Traslado or Radicacion is "vencida" iff dias_restantes < 0, "critica"
\* iff 0 <= dias_restantes <= 3, "alerta" iff 4 <= dias_restantes <= 7 and
\* "normal" iff dias_restantes > 7; the four levels are exhaustive and
\* mutually exclusive.
C31_NivelUrgencia ==
    [][get_nivel_urgencia =>
          LET d == fecha_vencimiento[1] - hoy
          IN  /\ nivel_consultado' \in {"vencida", "critica", "alerta", "normal"}
              /\ nivel_consultado' = "vencida" <=> d < 0
              /\ nivel_consultado' = "critica" <=> (0 <= d /\ d <= 3)
              /\ nivel_consultado' = "alerta" <=> (4 <= d /\ d <= 7)
              /\ nivel_consultado' = "normal" <=> d > 7]_vars

\* a deadline three days ahead was asked on the first day and answered critica
C31_Testigo ==
    /\ hoy = 0
    /\ fecha_vencimiento = <<3>>
    /\ nivel_consultado = "critica"

\* C32: for a Novedad built by crear_nueva, after any sequence of commands,
\* returned or raised, estado is RESUELTA iff funcionario_resuelve,
\* fecha_resolucion and descripcion_resolucion are all set; then
\* descripcion_resolucion is non-blank and fecha_resolucion >= fecha_reporte;
\* in every other state the three fields are None.
C32_CamposResolucion ==
    entidad = "Novedad" =>
        LET f == funcionario_resuelve # SinFuncionario
            d == fecha_resolucion # SinFecha
            t == ~descripcion_resolucion.nulo
        IN  /\ estado_proceso = "RESUELTA" <=> (f /\ d /\ t)
            /\ estado_proceso = "RESUELTA" =>
                  /\ ~VacioOBlanco(descripcion_resolucion)
                  /\ fecha_resolucion >= fecha_reporte
            /\ estado_proceso # "RESUELTA" => (~f /\ ~d /\ ~t)

\* a novedad reported on the first day whose resolution, asked the day after,
\* raised while writing its note and left the novedad RESUELTA
C32_Testigo ==
    /\ entidad = "Novedad"
    /\ estado_proceso = "RESUELTA"
    /\ ultimo = "error"
    /\ fecha_reporte = 0
    /\ fecha_resolucion = 1
    /\ ~descripcion_resolucion.nulo

\* the audit record at position i opens, or closes, a process
EsInicio(i) == historial_asignaciones[i].tipo_asignacion = "INICIO_PROCESO"
EsTermino(i) ==
    historial_asignaciones[i].tipo_asignacion \in {"COMPLETAR_PROCESO", "DEVOLVER_PROCESO"}
\* the process the record at position i is about
ProcesoEn(i) ==
    IF BaseEn(i) \in {"inicio_traslado", "completar_traslado", "devolver_traslado"}
    THEN "traslado" ELSE "radicacion"
\* the record at position j opens the process that the record at i closes,
\* with no other process record between them
Abre(j, i) ==
    /\ j < i
    /\ EsInicio(j)
    /\ ProcesoEn(j) = ProcesoEn(i)
    /\ \A k \in (j + 1)..(i - 1) : ~EsInicio(k) /\ ~EsTermino(k)
\* a record opens process p and no later record closes it
QuedaAbierto(p) ==
    \E j \in DOMAIN historial_asignaciones :
       /\ EsInicio(j)
       /\ ProcesoEn(j) = p
       /\ \A i \in (j + 1)..Len(historial_asignaciones) :
             ~(EsTermino(i) /\ ProcesoEn(i) = p)

\* C33: in the historial of an account built by crear_nueva_cuenta every
\* COMPLETAR_PROCESO or DEVOLVER_PROCESO record is preceded by an
\* INICIO_PROCESO record of the same process with no other process record
\* between them, and an INICIO_PROCESO record without a later termination
\* exists exactly when that process is active on the account.
C33_HistorialBienAnidado ==
    origen = "nueva" =>
        /\ \A i \in DOMAIN historial_asignaciones :
              EsTermino(i) => \E j \in DOMAIN historial_asignaciones : Abre(j, i)
        /\ QuedaAbierto("traslado") <=> proceso_traslado_activo
        /\ QuedaAbierto("radicacion") <=> proceso_radicacion_activo

\* the sequence s lists the process name p
Lista(s, p) == \E i \in DOMAIN s : s[i] = p
\* the cause named by a reason holds in the current state of the account
CausaCierta(razon, proceso) ==
    CASE razon = "traslado activo" -> proceso_traslado_activo
      [] razon = "radicacion activa" -> proceso_radicacion_activo
      [] razon = "cuenta inactiva" -> estado = "INACTIVA"
      [] razon = "ya enviada" ->
            proceso = "traslado" /\ tipo_proceso_anterior = "TRASLADO_COMPLETADO"
      [] razon = "ya llegada" ->
            proceso = "radicacion" /\ tipo_proceso_anterior = "RADICACION_COMPLETADA"
      [] razon = "proceso anterior" ->
            IF proceso = "traslado" THEN ~permite_traslado(tipo_proceso_anterior)
            ELSE ~permite_radicacion(tipo_proceso_anterior)
      [] OTHER -> FALSE

\* C34: in every reachable state of an account, iniciar_proceso_traslado with
\* a valid funcionario succeeds iff puede_iniciar_traslado() is true iff
\* get_razon_no_puede_trasladar() is None iff "traslado" is listed by
\* get_procesos_permitidos(), and the same for radicacion; a reason that is
\* not None names a cause that holds; the queries change nothing of the
\* account.
C34_ConsultasDeAcuerdo ==
    [][Construida =>
         /\ consultar =>
               /\ UNCHANGED <<cuenta_vars, origen, entregados>>
               /\ respuesta'.puede_iniciar_traslado
                     <=> respuesta'.razon_no_puede_trasladar = "None"
               /\ respuesta'.puede_iniciar_traslado
                     <=> Lista(respuesta'.procesos_permitidos, "traslado")
               /\ respuesta'.puede_iniciar_radicacion
                     <=> respuesta'.razon_no_puede_radicar = "None"
               /\ respuesta'.puede_iniciar_radicacion
                     <=> Lista(respuesta'.procesos_permitidos, "radicacion")
               /\ respuesta'.razon_no_puede_trasladar # "None" =>
                     CausaCierta(respuesta'.razon_no_puede_trasladar, "traslado")
               /\ respuesta'.razon_no_puede_radicar # "None" =>
                     CausaCierta(respuesta'.razon_no_puede_radicar, "radicacion")
         /\ ~(ComandoExitoso <=> (/\ puede_iniciar_traslado
                                  /\ get_razon_no_puede_trasladar = "None"
                                  /\ Lista(get_procesos_permitidos, "traslado"))) =>
               \A f \in FuncionariosEntrada :
                  strip(f) # <<>> => ~iniciar_proceso_traslado(f)
         /\ ~(ComandoExitoso <=> (/\ puede_iniciar_radicacion
                                  /\ get_razon_no_puede_radicar = "None"
                                  /\ Lista(get_procesos_permitidos, "radicacion"))) =>
               \A f \in FuncionariosEntrada :
                  strip(f) # <<>> => ~iniciar_proceso_radicacion(f)]_vars

\* the queries were asked of an account whose traslado was completed, and a
\* radicacion was then started on it
C34_Testigo ==
    /\ Construida
    /\ ~respuesta.puede_iniciar_traslado
    /\ respuesta.razon_no_puede_trasladar = "ya enviada"
    /\ respuesta.procesos_permitidos = <<"radicacion">>
    /\ proceso_radicacion_activo
    /\ ultimo = "ok"
    /\ Ultima(historial_asignaciones).motivo.base = "inicio_radicacion"

\* every event handed out so far, followed by the events still buffered
EventosEmitidos == entregados \o domain_events

\* C35: for an account built by crear_nueva_cuenta, the drained event
\* batches put end to end hold exactly one event per historial record, in the
\* same order, and each event names the acting official of its record in the
\* trimmed, upper-case form the historial stores.
C35_EventosComoHistorial ==
    (origen = "nueva" /\ domain_events = <<>>) =>
        /\ Len(entregados) = Len(historial_asignaciones)
        /\ \A i \in DOMAIN entregados :
              entregados[i].funcionario = historial_asignaciones[i].funcionario_id

\* C36: Radicacion.fue_recibida() is true exactly when the radicacion has
\* gone through reception, and the answer survives persistence: a radicacion
\* rebuilt by crear_desde_repositorio in RECIBIDO, REVISADO, CON_NOVEDADES or
\* RADICADO reports fue_recibida() true, one in PENDIENTE_RADICAR false.
C36_RecibidaPersiste ==
    entidad = "Radicacion" =>
        /\ estado_proceso \in {"RECIBIDO", "REVISADO", "CON_NOVEDADES", "RADICADO"}
              => fue_recibida
        /\ estado_proceso = "PENDIENTE_RADICAR" => ~fue_recibida

\* C37: for every state of a Traslado or Radicacion and both values of
\* es_admin, puede_ser_devuelto / puede_ser_devuelta(es_admin) of the entity
\* answers as puede_transicionar_a(DEVUELTO, es_admin) of the state enum, and
\* devolver_traslado / devolver_radicacion succeeds exactly when that answer
\* is true.
C37_DevolverSegunEnum ==
    /\ [](/\ entidad = "Traslado" =>
                \A a \in BOOLEAN :
                   puede_ser_devuelto(estado_proceso, a)
                      <=> traslado_puede_transicionar_a(estado_proceso, "DEVUELTO", a)
          /\ entidad = "Radicacion" =>
                \A a \in BOOLEAN :
                   puede_ser_devuelta(estado_proceso, a)
                      <=> radicacion_puede_transicionar_a(estado_proceso, "DEVUELTO", a))
    /\ [][\A f \in FuncionariosEntrada, m \in TextosProceso, a \in BOOLEAN :
            /\ (/\ entidad = "Traslado"
                /\ FuncionarioBienFormado(f) /\ TextoBienFormado(m)
                /\ Traslado_devolver_traslado(f, m, a))
                  => (ProcesoExitoso
                        <=> traslado_puede_transicionar_a(estado_proceso, "DEVUELTO", a))
            /\ (/\ entidad = "Radicacion"
                /\ FuncionarioBienFormado(f) /\ TextoBienFormado(m)
                /\ Radicacion_devolver_radicacion(f, m, a))
                  => (ProcesoExitoso
                        <=> radicacion_puede_transicionar_a(estado_proceso, "DEVUELTO", a))]_vars

\* C38: a Traslado or Radicacion never gets stuck: from every reachable
\* non-terminal state, whatever observaciones have accumulated, some sequence
\* of commands succeeds and reaches a terminal state.  Such a sequence holds a
\* first command that returns normally and changes estado, and the notes
\* written before it only lengthen observaciones, so in every non-terminal
\* state some command that returns normally and changes estado is possible.
C38_NuncaAtascado ==
    /\ (/\ entidad = "Traslado"
        /\ EmiteComando("Traslado")
        /\ estado_proceso \notin TerminalesTraslado)
          => ENABLED (NextAtasco /\ ultimo' = "ok" /\ estado_proceso' # estado_proceso)
    /\ (/\ entidad = "Radicacion"
        /\ EmiteComando("Radicacion")
        /\ estado_proceso \notin TerminalesRadicacion)
          => ENABLED (NextAtasco /\ ultimo' = "ok" /\ estado_proceso' # estado_proceso)

\* the record at position i of the historial is an inactivation, or a
\* reactivation
EsInactivacion(i) == historial_asignaciones[i].tipo_asignacion = "INACTIVACION"
EsReactivacion(i) == historial_asignaciones[i].tipo_asignacion = "REACTIVACION"
\* between two inactivations there is a reactivation, and between two
\* reactivations an inactivation
Alternan ==
    \A i, j \in DOMAIN historial_asignaciones :
        i < j =>
            /\ (EsInactivacion(i) /\ EsInactivacion(j)) =>
                  \E k \in (i + 1)..(j - 1) : EsReactivacion(k)
            /\ (EsReactivacion(i) /\ EsReactivacion(j)) =>
                  \E k \in (i + 1)..(j - 1) : EsInactivacion(k)

\* C39 as claimed: inactivar_cuenta is rejected on an account that is already
\* INACTIVA, so an INACTIVACION record and a CuentaInactivada event come only
\* from a change of estado, and INACTIVACION and REACTIVACION records strictly
\* alternate in the historial.
C39_InactivarSoloDesdeActiva ==
    /\ [](origen = "nueva" => Alternan)
    /\ [][Construida =>
            /\ (estado = "INACTIVA" /\ ~Rechazado) =>
                  \A f \in FuncionariosEntrada, m \in TextosEntrada : ~inactivar_cuenta(f, m)
            /\ ExitoDe("inactivar") => estado # estado']_vars

\* C39 amended: inactivar_cuenta with a valid funcionario and motivo is
\* rejected exactly when a process is active; it is accepted on an account
\* that is already INACTIVA too, where it appends one more INACTIVACION record
\* and buffers one more CuentaInactivada event while estado stays INACTIVA.
\* Every inactivar_cuenta that returns normally leaves the account INACTIVA,
\* and a REACTIVACION record is appended only by a step from INACTIVA to
\* ACTIVA.
C39_InactivarSinProceso ==
    [][Construida =>
         /\ ~(ComandoExitoso <=> ~tiene_proceso_activo) =>
               \A f \in FuncionariosEntrada, m \in TextosEntrada :
                  HistorialValido(crear_inactivacion(f, m)) => ~inactivar_cuenta(f, m)
         /\ ExitoDe("inactivar") =>
               /\ estado' = "INACTIVA"
               /\ Ultima(historial_asignaciones').tipo_asignacion = "INACTIVACION"
               /\ Ultima(domain_events').evento = "CuentaInactivada"
         /\ ExitoDe("reactivar") =>
               /\ estado = "INACTIVA" /\ estado' = "ACTIVA"
               /\ Ultima(historial_asignaciones').tipo_asignacion = "REACTIVACION"]_vars

\* an account was inactivated twice in a row by commands that returned
\* normally
C39_Testigo ==
    /\ origen = "nueva"
    /\ estado = "INACTIVA"
    /\ ultimo = "ok"
    /\ exitosos = 2
    /\ Len(historial_asignaciones) = 3
    /\ EsInactivacion(2)
    /\ EsInactivacion(3)

====
